---- MODULE Spec2Model ----
(***************************************************************************)
(* Recurrence-scheduling core of src/index.js: calendar-aware duration     *)
(* arithmetic (datePlusDuration), anchor flooring (floorDate), seek        *)
(* (repeatSeek), rebase (repeatRebase) and the action -> event function    *)
(* applyAction.                                                            *)
(*                                                                         *)
(* A Date is modelled by its time value split in whole days since the      *)
(* epoch and milliseconds within the day, [day |-> d, ms |-> m]; the time  *)
(* value is d * MsPerDay + m.  Local time is taken to be UTC without       *)
(* daylight saving, so the local calendar fields are the UTC fields.       *)
(* An Invalid Date (time value NaN) is InvalidDate; null is Null.          *)
(* A Duration is a record of its seven components, an absent component     *)
(* being 0 (every read in the source is `?? 0`).                           *)
(*                                                                         *)
(* A duration text is modelled by its designators, [n |-> number, u |->    *)
(* letter], the seconds designator counting milliseconds; a repeat text by *)
(* the tokens between its spaces.  Numbers are integers written in plain   *)
(* decimal digits: magnitudes from 1e21 on, which String() writes with an  *)
(* exponent, are not modelled.  The milliseconds a seconds text is read as *)
(* are Math.round(parseFloat(text) * 1000), computed in double arithmetic  *)
(* on sequences of binary digits.                                          *)
(*                                                                         *)
(* SpecObjects runs applyAction on objects: heap maps an address to the    *)
(* contents of a Date, repeat rule or task object, a spread allocates a    *)
(* new object and a Date setter assigns to the contents of an address.     *)
(***************************************************************************)
EXTENDS Integers, Sequences, FiniteSets, TLC

VARIABLES
    task,      \* Spec: the current task (the task of the last Update event)
    events,    \* Spec: the event list returned by the last applyAction call
    action,    \* Spec: the type of the last action, "none" before the first
    now,       \* Spec: the now of the last applyAction call
    input,     \* Spec: the task the last applyAction call was given
    fn,        \* SpecFn: the function applied last, "none" before
    rule,      \* SpecFn: the Schedule rule the functions are applied to
    from,      \* SpecFn: the reference instant (from / target / near)
    forward,   \* SpecFn: the direction of the seek
    result,    \* SpecFn: the value the function returned
    fpc,       \* SpecFloor: position in floorDate
    fdate,     \* SpecFloor: floorDate's local variable date
    ftarget,   \* SpecFloor: floorDate's parameter targetDate
    fbase,     \* SpecFloor: floorDate's parameter baseDate
    fperiod,   \* SpecFloor: floorDate's parameter period
    fiter,     \* SpecFloor: parity of the number of loop iterations done
    editor,    \* SpecView: TaskView's state.editor, null or {task, error}
    inputs,    \* SpecView: the values of the three input elements of the editor
    emitted,   \* SpecView: the events the view handed to its callback, in order
    seen,      \* SpecView: state.task as it was at each of these callbacks
    cfn,       \* SpecText: the conversion applied last, "none" before
    carg,      \* SpecText: the duration, duration text or repeat text given
    cdate,     \* SpecText: the instant given to datePlusDuration
    cresult,   \* SpecText: the value the conversion returned
    memo,      \* SpecPure: an earlier applyAction call, null before it is kept
    heap,      \* SpecObjects: the contents of the live objects, by address
    held       \* SpecObjects: the addresses the caller of applyAction holds

vars == <<task, events, action, now, input, fn, rule, from, forward, result,
          fpc, fdate, ftarget, fbase, fperiod, fiter, editor, inputs, emitted,
          seen,
          cfn, carg, cdate, cresult, memo, heap, held>>

taskVars == <<task, events, action, now, input>>
fnVars == <<fn, rule, from, forward, result>>
floorVars == <<fpc, fdate, ftarget, fbase, fperiod, fiter>>
viewVars == <<editor, inputs, emitted, seen>>
convVars == <<cfn, carg, cdate, cresult>>
memoVars == <<memo, heap, held>>

-----------------------------------------------------------------------------
(* Bounds of the model *)

\* Occurrences base + k * period are enumerated for k in -MaxK..MaxK.
MaxK == 4

\* The applyAction driver keeps scheduledDate within this many days of Origin.
MaxDrift == 6

-----------------------------------------------------------------------------
(* ECMAScript Date arithmetic used by the source.  An intermediate value    *)
(* that is used several times is bound once, as the one element of a set.  *)

Null == [null |-> TRUE]

InvalidDate == [invalid |-> TRUE]

MsPerDay == 24 * 60 * 60 * 1000

\* DayFromYear, DaysInYear of ECMAScript.
DayFromYear(y) ==
    365 * (y - 1970) + ((y - 1969) \div 4) - ((y - 1901) \div 100)
        + ((y - 1601) \div 400)

DaysInYear(y) == DayFromYear(y + 1) - DayFromYear(y)

\* Day within the year on which each month (1..12, 13 = end of year) starts.
MonthStarts(y) ==
    IF DaysInYear(y) = 366
    THEN <<0, 31, 60, 91, 121, 152, 182, 213, 244, 274, 305, 335, 366>>
    ELSE <<0, 31, 59, 90, 120, 151, 181, 212, 243, 273, 304, 334, 365>>

\* YearFromTime: the year containing a day number, e being an estimate of it
\* that is off by at most one.
YearNear(day, e) ==
    IF DayFromYear(e) > day THEN e - 1
    ELSE IF DayFromYear(e + 1) <= day THEN e + 1 ELSE e

YearFromDay(day) ==
    YearNear(day, 1970 + (day \div 146097) * 400
                       + (((day % 146097) * 400) \div 146097))

\* MonthFromTime (0..11) and DateFromTime of day dy of a year whose months
\* start on the days starts.
CivilInMonth(y, dy, starts) ==
    LET m == CHOOSE k \in 0..11 : starts[k + 1] <= dy /\ dy < starts[k + 2]
    IN  [year |-> y, month |-> m, date |-> dy - starts[m + 1] + 1]

CivilInYear(day, y) == CivilInMonth(y, day - DayFromYear(y), MonthStarts(y))

\* getFullYear(), getMonth(), getDate() of a day number.
Civil(day) == CHOOSE c \in {CivilInYear(day, y) : y \in {YearFromDay(day)}} : TRUE

\* MakeDay of ECMAScript: month and date may lie outside their ranges.
MakeDay(year, month, date) ==
    CHOOSE r \in
        {DayFromYear(ym) + MonthStarts(ym)[(month % 12) + 1] + date - 1 :
            ym \in {year + (month \div 12)}} : TRUE

\* The range of a Date: 8.64e15 ms, which is 100,000,000 days, on either side
\* of the epoch.
MaxDay == 100000000

\* TimeClip: a Date whose time value is beyond 8.64e15 ms in absolute value is
\* an Invalid Date.
TimeClip(day, ms) ==
    IF \/ day < -MaxDay
       \/ day > MaxDay
       \/ day = MaxDay /\ ms > 0
    THEN InvalidDate
    ELSE [day |-> day, ms |-> ms]

\* new Date("YYYY-MM-DDTHH:mm:ss.sss"), ms being the time of day: a month
\* outside 01..12, a day outside 01..31 or a time after 24:00 is no date-time
\* string and gives an Invalid Date; a day 29..31 that the month does not
\* have is carried over into the next month, and 24:00 is the next day.
DateOf(year, month, date, ms) ==
    IF month \notin 1..12 \/ date \notin 1..31 \/ ms \notin 0..MsPerDay
    THEN InvalidDate
    ELSE IF ms = MsPerDay
         THEN TimeClip(MakeDay(year, month - 1, date) + 1, 0)
         ELSE TimeClip(MakeDay(year, month - 1, date), ms)

IsValid(d) == d # InvalidDate /\ d # Null

\* a.valueOf() < b.valueOf(); false when either is NaN.
DateLT(a, b) ==
    /\ IsValid(a)
    /\ IsValid(b)
    /\ (a.day < b.day \/ (a.day = b.day /\ a.ms < b.ms))

\* The Date whose calendar fields are those of c moved by the given years,
\* months and days, the time within the day being ms.
SetCivil(c, years, months, days, ms) ==
    TimeClip(MakeDay(c.year + years, c.month + months, c.date + days), ms)

\* a.valueOf() <= b.valueOf(); false when either is NaN.
DateLE(a, b) == IsValid(a) /\ IsValid(b) /\ ~DateLT(b, a)

\* date.setFullYear(date.getFullYear() + n)
AddYears(d, n) ==
    IF ~IsValid(d) THEN InvalidDate
    ELSE CHOOSE r \in {SetCivil(c, n, 0, 0, d.ms) : c \in {Civil(d.day)}} : TRUE

\* date.setMonth(date.getMonth() + n)
AddMonths(d, n) ==
    IF ~IsValid(d) THEN InvalidDate
    ELSE CHOOSE r \in {SetCivil(c, 0, n, 0, d.ms) : c \in {Civil(d.day)}} : TRUE

\* date.setDate(date.getDate() + n)
AddDays(d, n) ==
    IF ~IsValid(d) THEN InvalidDate
    ELSE CHOOSE r \in {SetCivil(c, 0, 0, n, d.ms) : c \in {Civil(d.day)}} : TRUE

\* new Date(d.valueOf() + deltaMs)
PlusMs(d, deltaMs) ==
    IF ~IsValid(d) THEN InvalidDate
    ELSE LET t == d.ms + deltaMs
         IN  TimeClip(d.day + (t \div MsPerDay), t % MsPerDay)

-----------------------------------------------------------------------------
(* Duration arithmetic *)

ZeroDuration ==
    [years |-> 0, months |-> 0, days |-> 0, hours |-> 0, minutes |-> 0,
     seconds |-> 0, milliseconds |-> 0]

Epoch == [day |-> 0, ms |-> 0]

\* The flat millisecond offset of the sub-day components.
deltaMsOf(duration) ==
    1000 * (60 * (60 * duration.hours + duration.minutes) + duration.seconds)
        + duration.milliseconds

\* The setters act one after the other on the same Date object: afterYear,
\* afterMonth and afterDate are its values after each of them.
datePlusDuration(startDate, duration) ==
    CHOOSE r \in
        {PlusMs(afterDate, deltaMsOf(duration)) :
            afterDate \in {AddDays(afterMonth, duration.days) :
                afterMonth \in {AddMonths(afterYear, duration.months) :
                    afterYear \in {AddYears(startDate, duration.years)}}}} : TRUE

\* durationIsZero that looks at the calendar components only.
durationIsZeroDateOnly(duration) ==
    datePlusDuration(Epoch, [duration EXCEPT !.hours = 0, !.minutes = 0,
                                             !.seconds = 0,
                                             !.milliseconds = 0]) = Epoch

durationIsZero(duration) == datePlusDuration(Epoch, duration) = Epoch

\* negateDuration that leaves the sign of hours to milliseconds as it is.
negateDurationDateOnly(duration) ==
    [duration EXCEPT !.years = -duration.years, !.months = -duration.months,
                     !.days = -duration.days]

negateDuration(duration) ==
    [years |-> -duration.years, months |-> -duration.months,
     days |-> -duration.days, hours |-> -duration.hours,
     minutes |-> -duration.minutes, seconds |-> -duration.seconds,
     milliseconds |-> -duration.milliseconds]

-----------------------------------------------------------------------------
(* Repeat rules: floor, seek, rebase *)

Once == [type |-> "once"]

Manual == [type |-> "manual"]

Delay(delay) == [type |-> "delay", delay |-> delay]

Schedule(base, period, offsets) ==
    [type |-> "schedule", base |-> base, period |-> period, offsets |-> offsets]

\* First loop of floorDate: while (date < targetDate) date = date + period
RECURSIVE floorForward(_, _, _)
floorForward(date, targetDate, period) ==
    IF DateLT(date, targetDate)
    THEN floorForward(datePlusDuration(date, period), targetDate, period)
    ELSE date

\* Second loop of floorDate: while (date > targetDate) date = date - period
RECURSIVE floorBackward(_, _, _)
floorBackward(date, targetDate, period) ==
    IF DateLT(targetDate, date)
    THEN floorBackward(datePlusDuration(date, negateDuration(period)),
                       targetDate, period)
    ELSE date

floorDate(targetDate, baseDate, period) ==
    IF durationIsZero(period)
    THEN targetDate
    ELSE floorBackward(floorForward(baseDate, targetDate, period),
                       targetDate, period)

\* seekBases without the window before floor.
seekBasesNoPrevious(floor, period) ==
    <<floor, floor, datePlusDuration(floor, period)>>

\* The three period-aligned windows of repeatSeek around floor.
seekBases(floor, period) ==
    <<datePlusDuration(floor, negateDuration(period)),
      floor,
      datePlusDuration(floor, period)>>

\* The inner loop of repeatSeek: base plus each offset, in list order.
offsetDates(base, offsets) ==
    [j \in 1..Len(offsets) |-> datePlusDuration(base, offsets[j])]

\* The candidate dates of repeatSeek, window by window, offset by offset.
seekDates(bases, offsets) ==
    offsetDates(bases[1], offsets) \o offsetDates(bases[2], offsets)
        \o offsetDates(bases[3], offsets)

\* signedLT with <= for <.
signedLE(a, b, forward_) ==
    IF forward_ THEN DateLE(a, b) ELSE DateLE(b, a)

\* sign * a.valueOf() < sign * b.valueOf(), sign = forward ? 1 : -1
signedLT(a, b, forward_) ==
    IF forward_ THEN DateLT(a, b) ELSE DateLT(b, a)

\* The linear scan of repeatSeek from index i on, closest being the best so far.
RECURSIVE seekClosest(_, _, _, _, _)
seekClosest(dates, i, closest, from_, forward_) ==
    IF i > Len(dates)
    THEN closest
    ELSE seekClosest(dates, i + 1,
                     IF /\ signedLT(from_, dates[i], forward_)
                        /\ (closest = Null \/ signedLT(dates[i], closest, forward_))
                     THEN dates[i]
                     ELSE closest,
                     from_, forward_)

\* repeatSeek adding the delay of a Delay rule in both directions.
repeatSeekDelayForward(repeat, from_, forward_) ==
    CASE repeat.type \in {"once", "manual"} -> Null
      [] repeat.type = "delay" -> datePlusDuration(from_, repeat.delay)
      [] repeat.type = "schedule" ->
            seekClosest(
                seekDates(seekBases(floorDate(from_, repeat.base, repeat.period),
                                    repeat.period),
                          repeat.offsets),
                1, Null, from_, forward_)

repeatSeek(repeat, from_, forward_) ==
    CASE repeat.type \in {"once", "manual"} -> Null
      [] repeat.type = "delay" ->
            datePlusDuration(from_, IF forward_ THEN repeat.delay
                                    ELSE negateDuration(repeat.delay))
      [] repeat.type = "schedule" ->
            seekClosest(
                seekDates(seekBases(floorDate(from_, repeat.base, repeat.period),
                                    repeat.period),
                          repeat.offsets),
                1, Null, from_, forward_)

\* repeatRebase taking near itself as the new base.
repeatRebaseToNear(repeat, near) ==
    IF near = Null
    THEN repeat
    ELSE IF repeat.type \in {"once", "manual", "delay"}
         THEN repeat
         ELSE [repeat EXCEPT !.base = near]

\* repeatRebase returning the rule with its base left as it was.
repeatRebaseKeepBase(repeat, near) == repeat

repeatRebase(repeat, near) ==
    IF near = Null
    THEN repeat
    ELSE IF repeat.type \in {"once", "manual", "delay"}
         THEN repeat
         ELSE [repeat EXCEPT !.base = floorDate(near, repeat.base, repeat.period)]

-----------------------------------------------------------------------------
(* Texts: a duration text is the sequence of its designators after the "P"
   (a number and a unit letter each, [u |-> "T"] for the time separator, the
   number of an "S" designator counted in milliseconds); a repeat text is the
   sequence of its space-separated tokens *)

\* new Date(date.valueOf() - tzOffsetMs).toISOString().slice(0, -1)
serializeDate(date) ==
    [kind |-> "date", year |-> Civil(date.day).year,
     month |-> Civil(date.day).month + 1, date |-> Civil(date.day).date,
     ms |-> date.ms]

\* new Date(s), null when the time value is NaN
parseDate(s) ==
    IF s.kind = "date" /\ IsValid(DateOf(s.year, s.month, s.date, s.ms))
    THEN DateOf(s.year, s.month, s.date, s.ms)
    ELSE Null

\* designator that writes the number also when it is 0.
designatorAlways(n, u) == <<[n |-> n, u |-> u]>>

\* One designator of a duration text, omitted when the number is 0 (falsy).
designator(n, u) == IF n # 0 THEN <<[n |-> n, u |-> u]>> ELSE <<>>

\* The designators serializeDuration writes before the "T".
dateDesignators(duration) ==
    designator(duration.years, "Y") \o designator(duration.months, "M")
        \o designator(duration.days, "D")

\* timeDesignators that writes the whole seconds only.
timeDesignatorsWholeSeconds(duration) ==
    designator(duration.hours, "H") \o designator(duration.minutes, "M")
        \o designator(duration.seconds * 1000, "S")

\* The designators serializeDuration writes after the "T"; floatSeconds is
\* written with three decimals.
timeDesignators(duration) ==
    designator(duration.hours, "H") \o designator(duration.minutes, "M")
        \o designator(duration.seconds * 1000 + duration.milliseconds, "S")

serializeDuration(duration) ==
    [kind |-> "duration",
     text |->
        IF timeDesignators(duration) # <<>>
        THEN dateDesignators(duration) \o <<[n |-> 0, u |-> "T"]>>
                \o timeDesignators(duration)
        ELSE IF dateDesignators(duration) # <<>>
             THEN dateDesignators(duration)
             ELSE <<[n |-> 0, u |-> "D"]>>]

\* Numbers of the seconds text.  A Number is held by its magnitude in binary:
\* digits, the most significant first, and place, the power of two that the
\* last digit counts; its sign is kept beside it.

\* The binary digits of the whole number n, none for 0.
RECURSIVE digitsOf(_)
digitsOf(n) == IF n = 0 THEN <<>> ELSE digitsOf(n \div 2) \o <<n % 2>>

\* The whole number that binary digits write.
RECURSIVE valueOf(_)
valueOf(ds) ==
    IF ds = <<>>
    THEN 0
    ELSE 2 * valueOf(SubSeq(ds, 1, Len(ds) - 1)) + ds[Len(ds)]

\* The binary digits of n < 2^w written with w digits.
padded(n, w) == [i \in 1..(w - Len(digitsOf(n))) |-> 0] \o digitsOf(n)

\* The first 7 * n binary digits of the fraction r / d, r < d, seven at a time:
\* the whole part of 2^7 * r / d.
RECURSIVE fractionDigits(_, _, _)
fractionDigits(r, d, n) ==
    IF n = 0
    THEN <<>>
    ELSE padded((128 * r) \div d, 7) \o fractionDigits((128 * r) % d, d, n - 1)

\* What is left of r / d below its first 7 * n binary digits, in d-ths of the
\* place of the last of them.
RECURSIVE fractionRest(_, _, _)
fractionRest(r, d, n) ==
    IF n = 0 THEN r ELSE fractionRest((128 * r) % d, d, n - 1)

\* 5^k
RECURSIVE powerOfFive(_)
powerOfFive(k) == IF k = 0 THEN 1 ELSE 5 * powerOfFive(k - 1)

\* The length of the digits written after the ".": String(milliseconds)
\* padded with "0" to three.
RECURSIVE digitCount(_)
digitCount(ms) == IF ms < 1000 THEN 3 ELSE 1 + digitCount(ms \div 10)

\* Some digit from the i-th on is 1.
hasOne(ds, i) == \E j \in i..Len(ds) : ds[j] = 1

\* Binary digits without the zeros before the first 1.
significant(ds) ==
    IF hasOne(ds, 1)
    THEN SubSeq(ds, CHOOSE j \in 1..Len(ds) : ds[j] = 1 /\ ~hasOne(SubSeq(ds, 1, j - 1), 1),
                Len(ds))
    ELSE <<>>

\* The binary digits of one more than the digits write: the last 0 becomes 1
\* and the 1s after it become 0.
increment(ds) ==
    IF \A i \in 1..Len(ds) : ds[i] = 1
    THEN <<1>> \o [i \in 1..Len(ds) |-> 0]
    ELSE [i \in 1..Len(ds) |->
             IF \E j \in (i + 1)..Len(ds) : ds[j] = 0
             THEN ds[i]
             ELSE 1 - ds[i]]

\* The Number nearest to the value of digits that start with a 1: the first
\* 53 of them, one more when what is cut off is above half of the last place
\* kept, or is half of it and the last digit kept is 1 (ties go to even).
\* inexact: the value has a rest below the last digit given.
roundedNumber(ds, place, inexact) ==
    IF Len(ds) <= 53
    THEN [digits |-> ds, place |-> place]
    ELSE [digits |->
             IF ds[54] = 1 /\ (ds[53] = 1 \/ inexact \/ hasOne(ds, 55))
             THEN increment(SubSeq(ds, 1, 53))
             ELSE SubSeq(ds, 1, 53),
          place |-> place + Len(ds) - 53]

\* The Number nearest to the value that the digits write, the last of them
\* counting 2^place.  When inexact, at least 54 digits from the first 1 on are
\* given.
toNumber(ds, place, inexact) == roundedNumber(significant(ds), place, inexact)

\* The binary digits of c * ds + carry for c < 2^10, twenty digits of ds at a
\* time from the last: each twenty digits of the product are those of
\* c * chunk + carry below 2^20, and what is above is carried on.
RECURSIVE timesDigits(_, _, _)
timesDigits(ds, c, carry) ==
    IF Len(ds) <= 20
    THEN digitsOf(valueOf(ds) * c + carry)
    ELSE timesDigits(SubSeq(ds, 1, Len(ds) - 20), c,
                     (valueOf(SubSeq(ds, Len(ds) - 19, Len(ds))) * c + carry)
                         \div 1048576)
            \o padded((valueOf(SubSeq(ds, Len(ds) - 19, Len(ds))) * c + carry)
                          % 1048576, 20)

\* parseFloat of the text that writes whole, "." and ms < 10^k with k digits:
\* whole + ms / 10^k = whole + (ms / 5^k) / 2^k.  The first k digits of the
\* fraction are the whole part of ms / 5^k, the digits after them those of
\* its fraction, 7 * (k + 8) of them; the first 1 is among the first 4 * k
\* digits of the fraction at the latest.
parseFloatOf(whole, ms, k) ==
    toNumber(digitsOf(whole) \o padded(ms \div powerOfFive(k), k)
                \o fractionDigits(ms % powerOfFive(k), powerOfFive(k), k + 8),
             -(k + 7 * (k + 8)),
             fractionRest(ms % powerOfFive(k), powerOfFive(k), k + 8) # 0)

\* floatSeconds * 1000: the Number nearest to the product.
timesThousand(x) ==
    toNumber(timesDigits(x.digits, 1000, 0), x.place, FALSE)

\* Math.round of the Number whose first cut digits write its whole part: the
\* nearest whole number, the one towards +Infinity of two equally near.
roundedAt(ds, cut, negative) ==
    IF cut < 0
    THEN 0
    ELSE IF cut >= Len(ds)
         THEN (IF negative THEN -1 ELSE 1)
                 * valueOf(ds \o [i \in 1..(cut - Len(ds)) |-> 0])
         ELSE IF negative
              THEN -(valueOf(SubSeq(ds, 1, cut))
                        + (IF ds[cut + 1] = 1 /\ hasOne(ds, cut + 2) THEN 1 ELSE 0))
              ELSE valueOf(SubSeq(ds, 1, cut)) + ds[cut + 1]

\* Math.round(x) for the Number of magnitude x, negative or not.
MathRound(x, negative) == roundedAt(x.digits, Len(x.digits) + x.place, negative)

\* The seconds designator of the earlier revision of serializeDuration:
\* String(seconds ?? 0), then "." and the digits of milliseconds padded to
\* three when milliseconds is not 0, then "S".  The digits of a negative
\* milliseconds start with "-", which ends the number before the "S".  The
\* number of the designator is the count of milliseconds that
\* Math.round(parseFloat(text) * 1000) reads from the digits written.
secondsDesignator(duration) ==
    IF duration.milliseconds = 0
    THEN <<[n |-> duration.seconds * 1000, u |-> "S"]>>
    ELSE IF duration.milliseconds < 0
         THEN <<[n |-> duration.seconds * 1000, u |-> "."],
                [n |-> duration.milliseconds, u |-> "S"]>>
         ELSE <<[n |-> MathRound(
                          timesThousand(
                              parseFloatOf(IF duration.seconds < 0
                                           THEN -duration.seconds
                                           ELSE duration.seconds,
                                           duration.milliseconds,
                                           digitCount(duration.milliseconds))),
                          duration.seconds < 0),
                  u |-> "S"]>>

\* serializeDuration of the earlier revision of the source: the "T" and the
\* seconds are always written.
serializeDurationSeconds(duration) ==
    [kind |-> "duration",
     text |->
        dateDesignators(duration) \o <<[n |-> 0, u |-> "T"]>>
            \o designator(duration.hours, "H")
            \o designator(duration.minutes, "M")
            \o secondsDesignator(duration)]

\* The group of parseDuration's regex that a designator with unit u matches
\* when the groups before number stage are used up: 1 Y, 2 M, 3 D, 4 T, 5 H,
\* 6 M, 7 S; 0 when the regex does not match.
groupOf(u, stage) ==
    CASE u = "Y" /\ stage <= 1 -> 1
      [] u = "M" /\ stage <= 2 -> 2
      [] u = "D" /\ stage <= 3 -> 3
      [] u = "T" /\ stage <= 4 -> 4
      [] u = "H" /\ stage = 5 -> 5
      [] u = "M" /\ stage \in {5, 6} -> 6
      [] u = "S" /\ stage \in {5, 6, 7} -> 7
      [] OTHER -> 0

\* a % 1000 with a result that is never negative.
remainderFloor(a) == a % 1000

\* a % 1000 of JavaScript: the sign of the result is the sign of a.
remainder1000(a) == IF a >= 0 THEN a % 1000 ELSE -((-a) % 1000)

\* The duration with the number of one matched group stored.
withGroup(duration, group, n) ==
    CASE group = 1 -> [duration EXCEPT !.years = n]
      [] group = 2 -> [duration EXCEPT !.months = n]
      [] group = 3 -> [duration EXCEPT !.days = n]
      [] group = 4 -> duration
      [] group = 5 -> [duration EXCEPT !.hours = n]
      [] group = 6 -> [duration EXCEPT !.minutes = n]
      [] group = 7 -> [duration EXCEPT !.milliseconds = remainder1000(n),
                                       !.seconds = (n - remainder1000(n)) \div 1000]

\* regex.exec over the designators from index i on.
RECURSIVE matchDuration(_, _, _, _)
matchDuration(text, i, stage, duration) ==
    IF i > Len(text)
    THEN duration
    ELSE IF groupOf(text[i].u, stage) = 0
         THEN Null
         ELSE matchDuration(text, i + 1, groupOf(text[i].u, stage) + 1,
                            withGroup(duration, groupOf(text[i].u, stage),
                                      text[i].n))

parseDuration(s) ==
    IF s.kind = "duration"
    THEN matchDuration(s.text, 1, 1, ZeroDuration)
    ELSE Null

\* repeat.offsets.map(serializeDuration).join(" "): one empty token when there
\* is no offset.
serializeOffsets(offsets) ==
    IF offsets = <<>>
    THEN <<[kind |-> "empty"]>>
    ELSE [j \in 1..Len(offsets) |-> serializeDuration(offsets[j])]

serializeRepeat(repeat) ==
    CASE repeat.type \in {"once", "manual"} ->
            <<[kind |-> "word", word |-> repeat.type]>>
      [] repeat.type = "delay" ->
            <<[kind |-> "word", word |-> "delay"], serializeDuration(repeat.delay)>>
      [] repeat.type = "schedule" ->
            <<[kind |-> "word", word |-> "schedule"], serializeDate(repeat.base),
              serializeDuration(repeat.period)>>
                \o serializeOffsets(repeat.offsets)

\* The loop of parseRepeat over split.slice(3) meets no offset that does not
\* parse.
offsetsParse(split) ==
    \A i \in 4..Len(split) : parseDuration(split[i]) # Null

\* The offsets pushed by the loop of parseRepeat over split.slice(3).
parseOffsets(split) ==
    [j \in 1..(Len(split) - 3) |-> parseDuration(split[j + 3])]

\* The token is the word w.
isWord(token, w) == token.kind = "word" /\ token.word = w

\* parseRepeat that takes a schedule without offsets.
parseRepeatNoOffsets(s) ==
    CASE Len(s) = 1 /\ isWord(s[1], "once") -> Once
      [] Len(s) = 1 /\ isWord(s[1], "manual") -> Manual
      [] Len(s) = 2 /\ isWord(s[1], "delay") ->
            IF parseDuration(s[2]) = Null THEN Null ELSE Delay(parseDuration(s[2]))
      [] Len(s) >= 3 /\ isWord(s[1], "schedule") ->
            IF \/ parseDate(s[2]) = Null
               \/ parseDuration(s[3]) = Null
               \/ ~offsetsParse(s)
            THEN Null
            ELSE Schedule(parseDate(s[2]), parseDuration(s[3]), parseOffsets(s))
      [] OTHER -> Null

parseRepeat(s) ==
    CASE Len(s) = 1 /\ isWord(s[1], "once") -> Once
      [] Len(s) = 1 /\ isWord(s[1], "manual") -> Manual
      [] Len(s) = 2 /\ isWord(s[1], "delay") ->
            IF parseDuration(s[2]) = Null THEN Null ELSE Delay(parseDuration(s[2]))
      [] Len(s) >= 4 /\ isWord(s[1], "schedule") ->
            IF \/ parseDate(s[2]) = Null
               \/ parseDuration(s[3]) = Null
               \/ ~offsetsParse(s)
            THEN Null
            ELSE Schedule(parseDate(s[2]), parseDuration(s[3]), parseOffsets(s))
      [] OTHER -> Null

-----------------------------------------------------------------------------
(* Tasks, actions and events *)

\* startedTask keeping a start time that is already set.
startedTaskKeepStart(t, now_) ==
    [t EXCEPT !.state = "started",
              !.startEpochMs = IF t.startEpochMs # Null THEN t.startEpochMs ELSE now_,
              !.endEpochMs = Null]

\* The task of the Update event of "start".
startedTask(t, now_) ==
    [t EXCEPT !.state = "started", !.startEpochMs = now_, !.endEpochMs = Null]

\* cancelledTask changing the state tag only.
cancelledTaskKeepTimes(t) == [t EXCEPT !.state = "pending"]

\* The task of the Update event of "cancel".
cancelledTask(t) ==
    [t EXCEPT !.state = "pending", !.startEpochMs = Null, !.endEpochMs = Null]

\* completedTask with the start time left as it was (null for a pending task).
completedTaskKeepStart(t, now_) ==
    [t EXCEPT !.repeat = Once, !.state = "completed", !.endEpochMs = now_]

\* completedTask with the start time overwritten by now.
completedTaskRestart(t, now_) ==
    [t EXCEPT !.repeat = Once, !.state = "completed", !.startEpochMs = now_,
              !.endEpochMs = now_]

\* completedTask taking the start time from now and keeping an end time the
\* task has already.
completedTaskKeepEnd(t, now_) ==
    [t EXCEPT !.repeat = Once,
              !.state = "completed",
              !.startEpochMs = now_,
              !.endEpochMs = IF t.endEpochMs # Null THEN t.endEpochMs ELSE now_]

\* completedTask leaving the rule of the task as it is.
completedTaskKeepRepeat(t, now_) ==
    [t EXCEPT !.state = "completed",
              !.startEpochMs = IF t.startEpochMs # Null THEN t.startEpochMs ELSE now_,
              !.endEpochMs = now_]

\* The task of the Update event of "complete".
completedTask(t, now_) ==
    [t EXCEPT !.repeat = Once,
              !.state = "completed",
              !.startEpochMs = IF t.startEpochMs # Null THEN t.startEpochMs ELSE now_,
              !.endEpochMs = now_]

\* The task of the Create event of "complete", repeat being the rebased rule.
successorWith(t, repeat, now_) ==
    [t EXCEPT !.scheduledDate = repeatSeek(repeat, now_, TRUE),
              !.repeat = repeat,
              !.state = "pending",
              !.startEpochMs = Null,
              !.endEpochMs = Null]

\* successorTask rebased near the task's scheduledDate and sought from it.
successorTaskFromScheduled(t, now_) ==
    successorWith(t, repeatRebase(t.repeat, t.scheduledDate),
                  IF t.scheduledDate = Null THEN now_ ELSE t.scheduledDate)

successorTask(t, now_) == successorWith(t, repeatRebase(t.repeat, now_), now_)

\* completeEvents testing the repeat of the completed task, which is once.
completeEventsAfterUpdate(t, now_) ==
    <<[type |-> "update", task |-> completedTask(t, now_)]>>
    \o (IF completedTask(t, now_).repeat.type # "once"
        THEN <<[type |-> "create", task |-> successorTask(t, now_)]>>
        ELSE <<>>)

\* The events of "complete".
completeEvents(t, now_) ==
    <<[type |-> "update", task |-> completedTask(t, now_)]>>
    \o (IF t.repeat.type # "once"
        THEN <<[type |-> "create", task |-> successorTask(t, now_)]>>
        ELSE <<>>)

\* seekOrKeep without the fallback to the task's scheduledDate.
seekOrNone(found, scheduledDate) == found

\* repeatSeek(...) ?? task.scheduledDate
seekOrKeep(found, scheduledDate) ==
    IF found # Null THEN found ELSE scheduledDate

\* The task of the Update event of a seek, repeat being the rebased rule.
seekWith(t, repeat, forward_) ==
    [t EXCEPT !.scheduledDate =
                  IF t.scheduledDate = Null
                  THEN Null
                  ELSE seekOrKeep(repeatSeek(repeat, t.scheduledDate, forward_),
                                  t.scheduledDate),
              !.repeat = repeat]

\* seekTask with the rule left as it is, not rebased.
seekTaskNoRebase(t, forward_) == seekWith(t, t.repeat, forward_)

\* seekTask rebasing near 2021-12-25 when the task has no scheduledDate.
seekTaskRebaseAlways(t, forward_) ==
    seekWith(t, repeatRebase(t.repeat, IF t.scheduledDate = Null
                                       THEN DateOf(2021, 12, 25, 0)
                                       ELSE t.scheduledDate),
             forward_)

\* The task of the Update event of "seekBack" and "seekForward".
seekTask(t, forward_) ==
    seekWith(t, repeatRebase(t.repeat, t.scheduledDate), forward_)

\* applyAction with the cases of "start" and "cancel" exchanged.
applyActionSwapped(action_, t, now_) ==
    CASE action_ = "delete" -> <<[type |-> "delete"]>>
      [] action_ = "cancel" -> <<[type |-> "update", task |-> startedTask(t, now_)]>>
      [] action_ = "start" -> <<[type |-> "update", task |-> cancelledTask(t)]>>
      [] action_ = "complete" -> completeEvents(t, now_)
      [] action_ \in {"seekBack", "seekForward"} ->
            <<[type |-> "update", task |-> seekTask(t, action_ = "seekForward")]>>

\* applyAction whose Delete event carries the deleted task.
applyActionDeleteCarries(action_, t, now_) ==
    CASE action_ = "delete" -> <<[type |-> "delete", task |-> t]>>
      [] action_ = "start" -> <<[type |-> "update", task |-> startedTask(t, now_)]>>
      [] action_ = "cancel" -> <<[type |-> "update", task |-> cancelledTask(t)]>>
      [] action_ = "complete" -> completeEvents(t, now_)
      [] action_ \in {"seekBack", "seekForward"} ->
            <<[type |-> "update", task |-> seekTask(t, action_ = "seekForward")]>>

applyAction(action_, t, now_) ==
    CASE action_ = "delete" -> <<[type |-> "delete"]>>
      [] action_ = "start" -> <<[type |-> "update", task |-> startedTask(t, now_)]>>
      [] action_ = "cancel" -> <<[type |-> "update", task |-> cancelledTask(t)]>>
      [] action_ = "complete" -> completeEvents(t, now_)
      [] action_ \in {"seekBack", "seekForward"} ->
            <<[type |-> "update", task |-> seekTask(t, action_ = "seekForward")]>>

\* applyAction of the earlier revision, which returns the resulting tasks
\* instead of events: none for "delete", the completed task and its successor
\* for "complete".
applyActionTasks(action_, t, now_) ==
    CASE action_ = "delete" -> <<>>
      [] action_ = "start" -> <<startedTask(t, now_)>>
      [] action_ = "cancel" -> <<cancelledTask(t)>>
      [] action_ = "complete" ->
            <<completedTask(t, now_)>>
            \o (IF t.repeat.type # "once" THEN <<successorTask(t, now_)>> ELSE <<>>)
      [] action_ \in {"seekBack", "seekForward"} ->
            <<seekTask(t, action_ = "seekForward")>>

-----------------------------------------------------------------------------
(* Inputs of the model *)

Days(n) == [ZeroDuration EXCEPT !.days = n]

Months(n) == [ZeroDuration EXCEPT !.months = n]

Years(n) == [ZeroDuration EXCEPT !.years = n]

Hours(n) == [ZeroDuration EXCEPT !.hours = n]

\* 2021-12-25T00:00, the day of the applyAction tests of the source.
Origin == DateOf(2021, 12, 25, 0)

\* 2021-12-25T12:20, the now of the applyAction tests of the source.
TestNow == PlusMs(Origin, (12 * 60 + 20) * 60 * 1000)

Nows == {TestNow, DateOf(2021, 12, 27, 0)}

Names == {"foo"}

\* The rule of the daily-schedule test and the weekly rule of the seek tests.
DailyRule == Schedule(DateOf(2021, 12, 1, 0), Days(1), <<ZeroDuration>>)

WeeklyRule == Schedule(DateOf(2021, 12, 19, 0), Days(7), <<ZeroDuration, Days(6)>>)

MonthlyRule == Schedule(DateOf(2021, 10, 31, 0), Months(1), <<ZeroDuration, Days(-2)>>)

TaskRules ==
    {Once, Manual, Delay(Days(3)), Delay(Hours(-36)), DailyRule, WeeklyRule,
     MonthlyRule}

ScheduledDates == {Null, Origin, TestNow}

Lifecycles ==
    {[state |-> "pending", startEpochMs |-> Null, endEpochMs |-> Null]}
    \cup {[state |-> "started", startEpochMs |-> s, endEpochMs |-> Null] :
            s \in Nows}
    \cup {[state |-> "completed", startEpochMs |-> s, endEpochMs |-> e] :
            s \in Nows, e \in Nows}

InitialTasks ==
    {[name |-> n, scheduledDate |-> d, repeat |-> r, state |-> l.state,
      startEpochMs |-> l.startEpochMs, endEpochMs |-> l.endEpochMs] :
        n \in Names, d \in ScheduledDates, r \in TaskRules, l \in Lifecycles}

\* The driver's bound on how far seeking may carry a task's scheduledDate.
WithinDrift(t) ==
    \/ t.scheduledDate = Null
    \/ /\ IsValid(t.scheduledDate)
       /\ t.scheduledDate.day - Origin.day <= MaxDrift
       /\ Origin.day - t.scheduledDate.day <= MaxDrift

-----------------------------------------------------------------------------
(* Spec: a task driven by applyAction; an Update's task replaces the task *)

FnIdle ==
    /\ fn = "none"
    /\ rule = Null
    /\ from = Null
    /\ forward = FALSE
    /\ result = Null

FloorIdle ==
    /\ fpc = "idle"
    /\ fdate = Null
    /\ ftarget = Null
    /\ fbase = Null
    /\ fperiod = Null
    /\ fiter = 0

\* No TaskView has been constructed.
ViewIdle ==
    /\ editor = Null
    /\ inputs = Null
    /\ emitted = <<>>
    /\ seen = <<>>

ConvIdle ==
    /\ cfn = "none"
    /\ carg = Null
    /\ cdate = Null
    /\ cresult = Null

MemoIdle ==
    /\ memo = Null
    /\ heap = <<>>
    /\ held = Null

Init ==
    /\ task \in InitialTasks
    /\ events = <<>>
    /\ action = "none"
    /\ now = Null
    /\ input = Null
    /\ FnIdle
    /\ FloorIdle
    /\ ViewIdle
    /\ ConvIdle
    /\ MemoIdle

\* The task after the events of one applyAction call were applied.
taskAfter(t, evs) ==
    IF evs[1].type = "update" THEN evs[1].task ELSE t

DoDelete ==
    \E n \in Nows :
        /\ events' = applyAction("delete", task, n)
        /\ task' = taskAfter(task, events')
        /\ WithinDrift(task')
        /\ action' = "delete"
        /\ now' = n
        /\ input' = task
        /\ UNCHANGED <<fnVars, floorVars, viewVars, convVars, memoVars>>

DoStart ==
    \E n \in Nows :
        /\ events' = applyAction("start", task, n)
        /\ task' = taskAfter(task, events')
        /\ WithinDrift(task')
        /\ action' = "start"
        /\ now' = n
        /\ input' = task
        /\ UNCHANGED <<fnVars, floorVars, viewVars, convVars, memoVars>>

DoCancel ==
    \E n \in Nows :
        /\ events' = applyAction("cancel", task, n)
        /\ task' = taskAfter(task, events')
        /\ WithinDrift(task')
        /\ action' = "cancel"
        /\ now' = n
        /\ input' = task
        /\ UNCHANGED <<fnVars, floorVars, viewVars, convVars, memoVars>>

DoComplete ==
    \E n \in Nows :
        /\ events' = applyAction("complete", task, n)
        /\ task' = taskAfter(task, events')
        /\ WithinDrift(task')
        /\ action' = "complete"
        /\ now' = n
        /\ input' = task
        /\ UNCHANGED <<fnVars, floorVars, viewVars, convVars, memoVars>>

DoSeekBack ==
    \E n \in Nows :
        /\ events' = applyAction("seekBack", task, n)
        /\ task' = taskAfter(task, events')
        /\ WithinDrift(task')
        /\ action' = "seekBack"
        /\ now' = n
        /\ input' = task
        /\ UNCHANGED <<fnVars, floorVars, viewVars, convVars, memoVars>>

DoSeekForward ==
    \E n \in Nows :
        /\ events' = applyAction("seekForward", task, n)
        /\ task' = taskAfter(task, events')
        /\ WithinDrift(task')
        /\ action' = "seekForward"
        /\ now' = n
        /\ input' = task
        /\ UNCHANGED <<fnVars, floorVars, viewVars, convVars, memoVars>>

Next ==
    \/ DoDelete
    \/ DoStart
    \/ DoCancel
    \/ DoComplete
    \/ DoSeekBack
    \/ DoSeekForward

Spec == Init /\ [][Next]_vars

-----------------------------------------------------------------------------
(* SpecRevisions: "delete" of applyAction next to the earlier revision of
   applyAction, whose first returned task replaces the task *)

\* The task after the tasks returned by the earlier applyAction were applied.
taskAfterTasks(t, tasks) == IF Len(tasks) > 0 THEN tasks[1] ELSE t

TasksDelete ==
    \E n \in Nows :
        /\ events' = applyActionTasks("delete", task, n)
        /\ task' = taskAfterTasks(task, events')
        /\ action' = "delete"
        /\ now' = n
        /\ input' = task
        /\ UNCHANGED <<fnVars, floorVars, viewVars, convVars, memoVars>>

TasksStart ==
    \E n \in Nows :
        /\ events' = applyActionTasks("start", task, n)
        /\ task' = taskAfterTasks(task, events')
        /\ action' = "start"
        /\ now' = n
        /\ input' = task
        /\ UNCHANGED <<fnVars, floorVars, viewVars, convVars, memoVars>>

TasksCancel ==
    \E n \in Nows :
        /\ events' = applyActionTasks("cancel", task, n)
        /\ task' = taskAfterTasks(task, events')
        /\ action' = "cancel"
        /\ now' = n
        /\ input' = task
        /\ UNCHANGED <<fnVars, floorVars, viewVars, convVars, memoVars>>

TasksComplete ==
    \E n \in Nows :
        /\ events' = applyActionTasks("complete", task, n)
        /\ task' = taskAfterTasks(task, events')
        /\ action' = "complete"
        /\ now' = n
        /\ input' = task
        /\ UNCHANGED <<fnVars, floorVars, viewVars, convVars, memoVars>>

TasksSeekBack ==
    \E n \in Nows :
        /\ events' = applyActionTasks("seekBack", task, n)
        /\ task' = taskAfterTasks(task, events')
        /\ WithinDrift(task')
        /\ action' = "seekBack"
        /\ now' = n
        /\ input' = task
        /\ UNCHANGED <<fnVars, floorVars, viewVars, convVars, memoVars>>

TasksSeekForward ==
    \E n \in Nows :
        /\ events' = applyActionTasks("seekForward", task, n)
        /\ task' = taskAfterTasks(task, events')
        /\ WithinDrift(task')
        /\ action' = "seekForward"
        /\ now' = n
        /\ input' = task
        /\ UNCHANGED <<fnVars, floorVars, viewVars, convVars, memoVars>>

NextRevisions ==
    \/ DoDelete
    \/ TasksDelete
    \/ TasksStart
    \/ TasksCancel
    \/ TasksComplete
    \/ TasksSeekBack
    \/ TasksSeekForward

SpecRevisions == Init /\ [][NextRevisions]_vars

-----------------------------------------------------------------------------
(* SpecView: one TaskView driven by its buttons and by typing in its editor *)

\* Bound on the number of events handed to the callback.
MaxEmitted == 3

\* date.toISOString().substring(0, "YYYY-MM-DD".length) ?? "": the text
\* "YYYY-MM-DD" of the day for a year 0..9999; for any other year toISOString
\* writes the sign and six digits, and the first ten characters are
\* "+YYYYYY-MM", the text of the month.
dateInputValue(date) ==
    IF date = Null
    THEN [kind |-> "empty"]
    ELSE IF Civil(date.day).year \in 0..9999
         THEN [kind |-> "day", year |-> Civil(date.day).year,
               month |-> Civil(date.day).month + 1, date |-> Civil(date.day).date]
         ELSE [kind |-> "month", year |-> Civil(date.day).year,
               month |-> Civil(date.day).month + 1]

\* rawScheduledDate === "" ? null : new Date(rawScheduledDate); the text of a
\* month is read as the first day of the month.
dateInputDate(raw) ==
    CASE raw.kind = "empty" -> Null
      [] raw.kind = "day" -> DateOf(raw.year, raw.month, raw.date, 0)
      [] raw.kind = "month" -> DateOf(raw.year, raw.month, 1, 0)

\* render(true): the values the three inputs get from editorTask.
renderInputs(editorTask) ==
    [name |-> editorTask.name,
     scheduledDate |-> dateInputValue(editorTask.scheduledDate),
     repeat |-> serializeRepeat(editorTask.repeat)]

\* An error message: a string that is kept apart from null.
message(text) == [message |-> text]

\* getTaskFromEditor that takes an empty name.
getTaskFromEditorAnyName(t, ins) ==
    IF parseRepeat(ins.repeat) = Null
    THEN [ok |-> FALSE, error |-> message("Invalid repeat")]
    ELSE [ok |-> TRUE,
          value |-> [t EXCEPT !.name = ins.name,
                              !.scheduledDate = dateInputDate(ins.scheduledDate),
                              !.repeat = parseRepeat(ins.repeat)]]

\* getTaskFromEditor that spreads the task the editor was opened with.
getTaskFromEditorSnapshot(t, ins) ==
    IF ins.name = ""
    THEN [ok |-> FALSE, error |-> message("Name is required")]
    ELSE IF parseRepeat(ins.repeat) = Null
         THEN [ok |-> FALSE, error |-> message("Invalid repeat")]
         ELSE [ok |-> TRUE,
               value |-> [editor.task EXCEPT
                              !.name = ins.name,
                              !.scheduledDate = dateInputDate(ins.scheduledDate),
                              !.repeat = parseRepeat(ins.repeat)]]

\* getTaskFromEditor as a Result<Task, string>.
getTaskFromEditor(t, ins) ==
    IF ins.name = ""
    THEN [ok |-> FALSE, error |-> message("Name is required")]
    ELSE IF parseRepeat(ins.repeat) = Null
         THEN [ok |-> FALSE, error |-> message("Invalid repeat")]
         ELSE [ok |-> TRUE,
               value |-> [t EXCEPT !.name = ins.name,
                                   !.scheduledDate = dateInputDate(ins.scheduledDate),
                                   !.repeat = parseRepeat(ins.repeat)]]

\* processedTask that takes the task of a Create as it takes that of an Update.
RECURSIVE processedTaskAnyTask(_, _, _)
processedTaskAnyTask(t, evs, i) ==
    IF i > Len(evs)
    THEN t
    ELSE processedTaskAnyTask(IF evs[i].type # "delete" THEN evs[i].task ELSE t,
                              evs, i + 1)

\* state.task after processEvents went through the events from index i on.
RECURSIVE processedTask(_, _, _)
processedTask(t, evs, i) ==
    IF i > Len(evs)
    THEN t
    ELSE processedTask(IF evs[i].type = "update" THEN evs[i].task ELSE t,
                       evs, i + 1)

\* state.task as it is when processEvents calls the callback for each of the
\* events: the assignment for an Update comes before the call.
seenTasks(t, evs) ==
    [i \in 1..Len(evs) |-> processedTask(t, SubSeq(evs, 1, i), 1)]

\* The input values after processEvents: render(true) runs for an update, and
\* the editor is closed whenever processEvents handles one.
processedInputs(ins, t, evs) ==
    IF \E i \in 1..Len(evs) : evs[i].type = "update"
    THEN renderInputs(processedTask(t, evs, 1))
    ELSE ins

\* The tasks a TaskView is constructed with.
ViewTasks ==
    {[name |-> "foo", scheduledDate |-> TestNow, repeat |-> Once,
      state |-> "pending", startEpochMs |-> Null, endEpochMs |-> Null],
     [name |-> "foo", scheduledDate |-> Null, repeat |-> DailyRule,
      state |-> "started", startEpochMs |-> TestNow, endEpochMs |-> Null],
     [name |-> "foo", scheduledDate |-> Origin, repeat |-> Delay(Hours(-36)),
      state |-> "pending", startEpochMs |-> Null, endEpochMs |-> Null]}

\* What the user types into the three inputs.
TypedNames == {"", "bar"}

TypedDates == {[kind |-> "empty"], dateInputValue(DateOf(2021, 12, 27, 0))}

TypedRepeats ==
    {serializeRepeat(Manual),
     <<[kind |-> "word", word |-> "daily"]>>,
     <<[kind |-> "word", word |-> "delay"],
       [kind |-> "duration", text |-> <<[n |-> 1, u |-> "H"]>>]>>}

InitView ==
    /\ task \in ViewTasks
    /\ editor = Null
    /\ inputs = renderInputs(task)
    /\ emitted = <<>>
    /\ seen = <<>>
    /\ events = <<>>
    /\ action = "none"
    /\ now = Null
    /\ input = Null
    /\ FnIdle
    /\ FloorIdle
    /\ ConvIdle
    /\ MemoIdle

\* The complete button, shown while the editor is closed.
OnComplete ==
    \E n \in Nows :
        /\ editor = Null
        /\ Len(emitted) + 2 <= MaxEmitted
        /\ events' = applyAction("complete", task, n)
        /\ task' = processedTask(task, events', 1)
        /\ inputs' = processedInputs(inputs, task, events')
        /\ emitted' = emitted \o events'
        /\ seen' = seen \o seenTasks(task, events')
        /\ action' = "onComplete"
        /\ now' = n
        /\ input' = task
        /\ UNCHANGED <<editor, fnVars, floorVars, convVars, memoVars>>

\* onComplete called while the editor is open: render hides the button then,
\* the method does not look at the editor.  render(true) fills the inputs
\* from state.editor.task, and the editor stays open.
OnCompleteEditing ==
    \E n \in Nows :
        /\ editor # Null
        /\ Len(emitted) + 2 <= MaxEmitted
        /\ events' = applyAction("complete", task, n)
        /\ task' = processedTask(task, events', 1)
        /\ inputs' = renderInputs(editor.task)
        /\ emitted' = emitted \o events'
        /\ seen' = seen \o seenTasks(task, events')
        /\ action' = "onComplete"
        /\ now' = n
        /\ input' = task
        /\ UNCHANGED <<editor, fnVars, floorVars, convVars, memoVars>>

\* onEdit, the handler of the edit button: it opens the editor on a copy of
\* state.task and fills the inputs from it, also when an editor is open
\* already (render hides the button then, the method has no such condition).
OnEdit ==
    /\ editor' = [task |-> task, error |-> Null]
    /\ inputs' = renderInputs(task)
    /\ action' = "onEdit"
    /\ UNCHANGED <<task, events, now, input, emitted, seen, fnVars, floorVars, convVars, memoVars>>

TypeName ==
    \E v \in TypedNames :
        /\ editor # Null
        /\ inputs' = [inputs EXCEPT !.name = v]
        /\ action' = "type"
        /\ UNCHANGED <<task, events, now, input, editor, emitted, seen,
                       fnVars, floorVars, convVars, memoVars>>

TypeScheduledDate ==
    \E v \in TypedDates :
        /\ editor # Null
        /\ inputs' = [inputs EXCEPT !.scheduledDate = v]
        /\ action' = "type"
        /\ UNCHANGED <<task, events, now, input, editor, emitted, seen,
                       fnVars, floorVars, convVars, memoVars>>

TypeRepeat ==
    \E v \in TypedRepeats :
        /\ editor # Null
        /\ inputs' = [inputs EXCEPT !.repeat = v]
        /\ action' = "type"
        /\ UNCHANGED <<task, events, now, input, editor, emitted, seen,
                       fnVars, floorVars, convVars, memoVars>>

\* onSave, the handler of the save button of the editor: submitEditor, which
\* returns at once when no editor is open, then the Update of the edited task
\* when it validated, the error shown otherwise.
OnSave ==
    /\ Len(emitted) + 1 <= MaxEmitted
    /\ action' = "onSave"
    /\ input' = task
    /\ IF editor = Null
       THEN UNCHANGED <<task, events, editor, inputs, emitted, seen>>
       ELSE IF getTaskFromEditor(task, inputs).ok
            THEN /\ editor' = Null
                 /\ events' = <<[type |-> "update",
                                 task |-> getTaskFromEditor(task, inputs).value]>>
                 /\ task' = processedTask(task, events', 1)
                 /\ inputs' = processedInputs(inputs, task, events')
                 /\ emitted' = emitted \o events'
                 /\ seen' = seen \o seenTasks(task, events')
            ELSE /\ editor' = [editor EXCEPT
                                  !.error = getTaskFromEditor(task, inputs).error]
                 /\ UNCHANGED <<task, events, inputs, emitted, seen>>
    /\ UNCHANGED <<now, fnVars, floorVars, convVars, memoVars>>

\* onEditorCancel, the handler of the cancel button of the editor; with no
\* editor open it leaves the state as it is.
OnEditorCancel ==
    /\ editor' = Null
    /\ inputs' = renderInputs(task)
    /\ action' = "onEditorCancel"
    /\ UNCHANGED <<task, events, now, input, emitted, seen, fnVars, floorVars, convVars, memoVars>>

\* onDelete, the handler of the delete button of the editor; confirmed is the
\* answer to confirm().  The method does not look at the editor.
OnDelete ==
    \E confirmed \in BOOLEAN :
        /\ Len(emitted) + 1 <= MaxEmitted
        /\ action' = "onDelete"
        /\ input' = task
        /\ IF confirmed
           THEN /\ events' = <<[type |-> "delete"]>>
                /\ emitted' = emitted \o events'
                /\ seen' = seen \o seenTasks(task, events')
           ELSE UNCHANGED <<events, emitted, seen>>
        /\ UNCHANGED <<task, now, editor, inputs, fnVars, floorVars, convVars, memoVars>>

NextView ==
    \/ OnComplete
    \/ OnCompleteEditing
    \/ OnEdit
    \/ TypeName
    \/ TypeScheduledDate
    \/ TypeRepeat
    \/ OnSave
    \/ OnEditorCancel
    \/ OnDelete

SpecView == InitView /\ [][NextView]_vars

-----------------------------------------------------------------------------
(* Claims about applyAction, checked under Spec *)

\* startEpochMs and endEpochMs are present exactly as the state tag says.
TaskValid(t) ==
    \/ t.state = "pending" /\ t.startEpochMs = Null /\ t.endEpochMs = Null
    \/ t.state = "started" /\ t.startEpochMs # Null /\ t.endEpochMs = Null
    \/ t.state = "completed" /\ t.startEpochMs # Null /\ t.endEpochMs # Null

\* C1: starting from a valid task, every task carried by an Update or Create
\* event of any sequence of applyAction calls is valid, and so is the current
\* task.
C1_EventTasksValid ==
    /\ TaskValid(task)
    /\ \A i \in 1..Len(events) :
          events[i].type \in {"update", "create"} => TaskValid(events[i].task)

\* A pending task with a recurring rule was completed: the Update carries a
\* completed task and the Create a pending one.
C1_Witness ==
    /\ action = "complete"
    /\ input.state = "pending"
    /\ Len(events) = 2
    /\ events[1].task.state = "completed"
    /\ events[2].task.state = "pending"

\* C2: the first event of complete is Update(task') with repeat once, state
\* completed, endEpochMs now, startEpochMs the input's when set and now
\* otherwise, and the input's name and scheduledDate.
C2_CompleteUpdate ==
    action = "complete" =>
        /\ Len(events) >= 1
        /\ events[1].type = "update"
        /\ events[1].task.repeat = Once
        /\ events[1].task.state = "completed"
        /\ events[1].task.endEpochMs = now
        /\ events[1].task.startEpochMs =
              (IF input.startEpochMs # Null THEN input.startEpochMs ELSE now)
        /\ events[1].task.name = input.name
        /\ events[1].task.scheduledDate = input.scheduledDate
        /\ DOMAIN events[1].task = DOMAIN input

\* A task started at another instant than now was completed and kept its
\* start time.
C2_Witness ==
    /\ action = "complete"
    /\ input.state = "started"
    /\ input.startEpochMs # now
    /\ events[1].task.startEpochMs = input.startEpochMs
    /\ events[1].task.endEpochMs = now

\* C3: complete returns the Update alone when the input's repeat is once, and
\* the Update followed by a Create otherwise, whatever the input's lifecycle.
C3_CompleteEventCount ==
    action = "complete" =>
        IF input.repeat.type = "once"
        THEN Len(events) = 1 /\ events[1].type = "update"
        ELSE /\ Len(events) = 2
             /\ events[1].type = "update"
             /\ events[2].type = "create"

\* A completed task that still carries a manual rule was completed again:
\* two events.
C3_Witness ==
    /\ action = "complete"
    /\ input.state = "completed"
    /\ input.repeat.type = "manual"
    /\ Len(events) = 2
    /\ events[2].type = "create"

\* C4: the successor of the Create event has repeat = rebase(input.repeat, now),
\* scheduledDate = seek(that repeat, now, forward), state pending with null
\* start and end, and the input's name.
C4_Successor ==
    (action = "complete" /\ Len(events) = 2) =>
        /\ events[2].task.repeat = repeatRebase(input.repeat, now)
        /\ events[2].task.scheduledDate =
              repeatSeek(repeatRebase(input.repeat, now), now, TRUE)
        /\ events[2].task.state = "pending"
        /\ events[2].task.startEpochMs = Null
        /\ events[2].task.endEpochMs = Null
        /\ events[2].task.name = input.name

\* The daily-schedule test of the source: completing at 2021-12-25T12:20 a
\* task scheduled earlier gives a successor rebased to 2021-12-25T00:00 and
\* scheduled for 2021-12-26T00:00.
C4_Witness ==
    /\ action = "complete"
    /\ now = TestNow
    /\ input.repeat = DailyRule
    /\ input.scheduledDate = Origin
    /\ Len(events) = 2
    /\ events[2].task.repeat = [DailyRule EXCEPT !.base = Origin]
    /\ events[2].task.scheduledDate = DateOf(2021, 12, 26, 0)

-----------------------------------------------------------------------------
(* SpecFloor: floorDate run statement by statement *)

TaskIdle ==
    /\ task = Null
    /\ events = <<>>
    /\ action = "none"
    /\ now = Null
    /\ input = Null

\* Durations with several components, as parseDuration returns them.
MonthsDays(m, d) == [ZeroDuration EXCEPT !.months = m, !.days = d]

DaysHours(d, h) == [ZeroDuration EXCEPT !.days = d, !.hours = h]

YearsMonths(y, m) == [ZeroDuration EXCEPT !.years = y, !.months = m]

\* Bases before, between and after the targets, on the last and on the first
\* days of months and on the leap day.
FloorBases ==
    {DateOf(2020, 2, 29, 0), DateOf(2021, 11, 15, 0), DateOf(2021, 12, 25, 0),
     DateOf(2021, 12, 31, 0), DateOf(2022, 1, 31, 0), DateOf(2022, 3, 30, 0),
     DateOf(2022, 3, 31, 0), DateOf(2022, 4, 1, 0), DateOf(2022, 5, 31, 0)}

FloorTargets ==
    {TestNow, DateOf(2021, 11, 15, 0), DateOf(2022, 1, 31, 0),
     DateOf(2022, 2, 1, 0), DateOf(2022, 2, 15, 0), DateOf(2022, 3, 1, 0),
     DateOf(2022, 3, 30, 0)}

FloorPeriods ==
    {ZeroDuration, Days(1), Days(7), Hours(36), DaysHours(1, 12),
     Months(1), Months(2), Years(1), YearsMonths(1, 1),
     MonthsDays(1, 1), MonthsDays(1, -31), MonthsDays(1, -30), MonthsDays(1, -1)}

\* Periods that move a date back.  With a base before the target the first
\* loop of floorDate, and with a base after it the second, moves date away
\* from the target until it leaves the range of Date.
BackwardPeriods == {Months(-1), Years(-1)}

\* Bases forty days inside the two ends of the range of Date.
EdgeBases == {TimeClip(40 - MaxDay, 0), TimeClip(MaxDay - 40, 0)}

\* The calls of floorDate: <<targetDate, baseDate, period>>.  A backward
\* period is given a base that is the target, or one from which date leaves
\* the range of Date after a step or two and not after millions of them.
FloorCalls ==
    (FloorTargets \X FloorBases \X FloorPeriods)
    \cup {<<t, t, p>> : t \in FloorTargets, p \in BackwardPeriods}
    \cup (FloorTargets \X EdgeBases \X BackwardPeriods)

InitFloor ==
    /\ fpc = "start"
    /\ \E call \in FloorCalls :
           /\ ftarget = call[1]
           /\ fbase = call[2]
           /\ fperiod = call[3]
    /\ fdate = fbase
    /\ fiter = 0
    /\ TaskIdle
    /\ FnIdle
    /\ ViewIdle
    /\ ConvIdle
    /\ MemoIdle

\* if (durationIsZero(period)) return targetDate;
FloorZero ==
    /\ fpc = "start"
    /\ durationIsZero(fperiod)
    /\ fdate' = ftarget
    /\ fpc' = "done"
    /\ UNCHANGED <<ftarget, fbase, fperiod, fiter, taskVars, fnVars, viewVars, convVars, memoVars>>

\* let date = baseDate;
FloorEnter ==
    /\ fpc = "start"
    /\ ~durationIsZero(fperiod)
    /\ fdate' = fbase
    /\ fpc' = "forward"
    /\ UNCHANGED <<ftarget, fbase, fperiod, fiter, taskVars, fnVars, viewVars, convVars, memoVars>>

\* while (date < targetDate) date = datePlusDuration(date, period);
FloorForwardStep ==
    /\ fpc = "forward"
    /\ DateLT(fdate, ftarget)
    /\ fdate' = datePlusDuration(fdate, fperiod)
    /\ fiter' = 1 - fiter
    /\ UNCHANGED <<fpc, ftarget, fbase, fperiod, taskVars, fnVars, viewVars, convVars, memoVars>>

\* floorDate without its second loop.
FloorForwardExitReturns ==
    /\ fpc = "forward"
    /\ ~DateLT(fdate, ftarget)
    /\ fpc' = "done"
    /\ UNCHANGED <<fdate, ftarget, fbase, fperiod, fiter,
                   taskVars, fnVars, viewVars, convVars, memoVars>>

FloorForwardExit ==
    /\ fpc = "forward"
    /\ ~DateLT(fdate, ftarget)
    /\ fpc' = "backward"
    /\ UNCHANGED <<fdate, ftarget, fbase, fperiod, fiter,
                   taskVars, fnVars, viewVars, convVars, memoVars>>

\* while (date > targetDate) date = datePlusDuration(date, negateDuration(period));
FloorBackwardStep ==
    /\ fpc = "backward"
    /\ DateLT(ftarget, fdate)
    /\ fdate' = datePlusDuration(fdate, negateDuration(fperiod))
    /\ fiter' = 1 - fiter
    /\ UNCHANGED <<fpc, ftarget, fbase, fperiod, taskVars, fnVars, viewVars, convVars, memoVars>>

\* return date;
FloorReturn ==
    /\ fpc = "backward"
    /\ ~DateLT(ftarget, fdate)
    /\ fpc' = "done"
    /\ UNCHANGED <<fdate, ftarget, fbase, fperiod, fiter,
                   taskVars, fnVars, viewVars, convVars, memoVars>>

NextFloor ==
    \/ FloorZero
    \/ FloorEnter
    \/ FloorForwardStep
    \/ FloorForwardExit
    \/ FloorBackwardStep
    \/ FloorReturn

\* The code is synchronous: a call that has a next statement executes it.
SpecFloor == InitFloor /\ [][NextFloor]_vars /\ WF_vars(NextFloor)

-----------------------------------------------------------------------------
(* SpecFn: repeatSeek, repeatRebase and floorDate applied to drawn inputs *)

\* Schedule rules as parseRepeat returns them: month-end bases, offsets of
\* either sign and beyond one period, a zero period.
FnSchedules ==
    {DailyRule, WeeklyRule, MonthlyRule,
     Schedule(DateOf(2021, 12, 31, 0), Months(1), <<ZeroDuration>>),
     Schedule(DateOf(2021, 12, 1, 0), Months(1), <<Days(-1)>>),
     Schedule(DateOf(2021, 12, 19, 0), Days(7), <<Days(8), Days(1)>>),
     Schedule(DateOf(2022, 3, 1, 0), MonthsDays(1, 1), <<ZeroDuration>>),
     Schedule(DateOf(2020, 2, 29, 0), Years(1), <<ZeroDuration, Months(6)>>),
     Schedule(DateOf(2021, 12, 25, 0), Hours(36), <<ZeroDuration, Hours(12)>>),
     Schedule(DateOf(2021, 12, 19, 0), ZeroDuration, <<ZeroDuration, Days(1)>>)}

FnRules == FnSchedules \cup {Once, Manual, Delay(Days(3)), Delay(Hours(-36))}

FnDates ==
    {TestNow, Origin, DateOf(2021, 12, 19, 0), DateOf(2021, 12, 31, 0),
     DateOf(2022, 1, 31, 0), DateOf(2022, 2, 10, 0), DateOf(2022, 3, 1, 0)}

InitFn ==
    /\ fn = "none"
    /\ rule \in FnRules
    /\ from \in FnDates \cup {Null}
    /\ forward \in BOOLEAN
    /\ result = Null
    /\ TaskIdle
    /\ FloorIdle
    /\ ViewIdle
    /\ ConvIdle
    /\ MemoIdle

\* repeatSeek(rule, from, forward)
DoSeek ==
    /\ fn = "none"
    /\ from # Null
    /\ result' = repeatSeek(rule, from, forward)
    /\ fn' = "seek"
    /\ UNCHANGED <<rule, from, forward, taskVars, floorVars, viewVars, convVars, memoVars>>

\* floorDate(from, rule.base, rule.period)
DoFloor ==
    /\ fn = "none"
    /\ from # Null
    /\ rule.type = "schedule"
    /\ result' = floorDate(from, rule.base, rule.period)
    /\ fn' = "floor"
    /\ UNCHANGED <<rule, from, forward, taskVars, floorVars, viewVars, convVars, memoVars>>

\* repeatRebase(rule, from)
DoRebase ==
    /\ fn = "none"
    /\ result' = repeatRebase(rule, from)
    /\ fn' = "rebase"
    /\ UNCHANGED <<rule, from, forward, taskVars, floorVars, viewVars, convVars, memoVars>>

\* repeatRebase(repeatRebase(rule, from), from)
DoRebaseAgain ==
    /\ fn = "rebase"
    /\ result' = repeatRebase(result, from)
    /\ fn' = "rebaseAgain"
    /\ UNCHANGED <<rule, from, forward, taskVars, floorVars, viewVars, convVars, memoVars>>

\* repeatSeek(repeatRebase(rule, near), from, forward), after repeatSeek(rule,
\* from, forward) has returned result: cdate is near, cresult what it returns.
DoSeekRebased ==
    \E near \in FnDates \cup {Null} :
        /\ fn = "seek"
        /\ cfn = "none"
        /\ cresult' = repeatSeek(repeatRebase(rule, near), from, forward)
        /\ cdate' = near
        /\ cfn' = "seekRebased"
        /\ UNCHANGED <<carg, fnVars, taskVars, floorVars, viewVars, memoVars>>

NextFn ==
    \/ DoSeek
    \/ DoFloor
    \/ DoRebase
    \/ DoRebaseAgain
    \/ DoSeekRebased

SpecFn == InitFn /\ [][NextFn]_vars

-----------------------------------------------------------------------------
(* Claims about floorDate, checked under SpecFloor *)

NonNegative(d) ==
    /\ d.years >= 0
    /\ d.months >= 0
    /\ d.days >= 0
    /\ d.hours >= 0
    /\ d.minutes >= 0
    /\ d.seconds >= 0
    /\ d.milliseconds >= 0

\* base + k * period: k calendar additions of period (of its negation for k < 0).
RECURSIVE addTimes(_, _, _)
addTimes(date, period, k) ==
    IF k = 0 THEN date
    ELSE IF k > 0
         THEN addTimes(datePlusDuration(date, period), period, k - 1)
         ELSE addTimes(datePlusDuration(date, negateDuration(period)), period, k + 1)

\* floorDate has returned fdate for a period that is not zero.
FloorReturned == fpc = "done" /\ ~durationIsZero(fperiod)

\* C7 as stated: for every non-zero period of any sign the result of floor is
\* <= target and result + period is > target.
C7_FloorBracketsAnySign ==
    FloorReturned =>
        /\ DateLE(fdate, ftarget)
        /\ DateLT(ftarget, datePlusDuration(fdate, fperiod))

\* The components of a period are all of the calendar (years, months) or all
\* of fixed length (days and below; a day has no other length in UTC).
CalendarOnly(d) ==
    /\ d.days = 0 /\ d.hours = 0 /\ d.minutes = 0
    /\ d.seconds = 0 /\ d.milliseconds = 0

FixedOnly(d) == d.years = 0 /\ d.months = 0

Unmixed(d) == CalendarOnly(d) \/ FixedOnly(d)

\* C7 amended: for every non-zero period without a negative component the
\* result of floor is <= target, and when the period is made of year and month
\* components only or of day and sub-day components only, result + period is
\* > target.
C7_FloorBrackets ==
    (FloorReturned /\ NonNegative(fperiod)) =>
        /\ DateLE(fdate, ftarget)
        /\ (Unmixed(fperiod) => DateLT(ftarget, datePlusDuration(fdate, fperiod)))

\* floor of a monthly period from an end-of-month base after the target went
\* back over February and returned a date within one period of the target.
C7_Witness ==
    /\ FloorReturned
    /\ fperiod = Months(1)
    /\ fbase = DateOf(2022, 3, 31, 0)
    /\ ftarget = DateOf(2022, 3, 1, 0)
    /\ DateLT(fdate, ftarget)
    /\ fdate # datePlusDuration(fbase, negateDuration(fperiod))
    /\ DateLT(ftarget, datePlusDuration(fdate, fperiod))

\* C8: for a non-zero period floor returns the largest instant base + k * period
\* that is <= target; in particular the result is base when base <= target and
\* base + period > target.  Stated for the periods without negative component.
C8_FloorIsLargest ==
    (FloorReturned /\ NonNegative(fperiod)) =>
        /\ \A k \in (-MaxK)..MaxK :
              DateLE(addTimes(fbase, fperiod, k), ftarget)
                  => DateLE(addTimes(fbase, fperiod, k), fdate)
        /\ (DateLE(fbase, ftarget)
              /\ DateLT(ftarget, datePlusDuration(fbase, fperiod)))
                  => fdate = fbase

\* C9: floor terminates and returns for every rule parseRepeat accepts.
C9_FloorTerminates == <>(fpc = "done")

-----------------------------------------------------------------------------
(* Claims about repeatSeek and repeatRebase, checked under SpecFn *)

\* The occurrences base + k * period + offset of a Schedule rule, k in -MaxK..MaxK.
Occurrences(r) ==
    {datePlusDuration(addTimes(r.base, r.period, k), r.offsets[j]) :
        k \in (-MaxK)..MaxK, j \in 1..Len(r.offsets)}

\* repeatSeek has returned result for a Schedule rule.
SeekReturned == fn = "seek" /\ rule.type = "schedule"

\* C5: seek returns the occurrence nearest to from among all the occurrences
\* base + k * period + offset strictly on the requested side of from: no
\* occurrence lies strictly between from and the result, and the result is
\* none only when no occurrence lies on that side.
C5_SeekNearestOfAll ==
    (SeekReturned /\ ~durationIsZero(rule.period)) =>
        \A o \in Occurrences(rule) :
            signedLT(from, o, forward) =>
                (result # Null /\ ~signedLT(o, result, forward))

\* C6: an instant returned by seek for a Schedule rule is strictly after from
\* when forward and strictly before from otherwise, never from itself.
C6_SeekStrictSide ==
    (SeekReturned /\ result # Null) =>
        /\ IsValid(result)
        /\ result # from
        /\ IF forward THEN DateLT(from, result) ELSE DateLT(result, from)

\* from is itself an occurrence of the weekly rule (its base): seeking forward
\* skips it and returns base + 6 days.
C6_Witness ==
    /\ SeekReturned
    /\ rule = WeeklyRule
    /\ from = WeeklyRule.base
    /\ forward
    /\ result = DateOf(2021, 12, 25, 0)

\* C10: rebase is idempotent, rebase(rebase(r, d), d) = rebase(r, d), for every
\* rule and every d.
C10_RebaseIdempotent == [][DoRebaseAgain => result' = result]_vars

-----------------------------------------------------------------------------
(* Claims about repeatRebase and repeatSeek by rule variant, under SpecFn *)

\* repeatRebase(rule, from) has returned result.
RebaseReturned == fn = "rebase"

\* C11: rebase returns the rule unchanged for Once, Manual and Delay and for a
\* near of none; for a Schedule rule and a near that is an instant it returns a
\* Schedule with base floor(near, base, period) and the same period and offsets.
C11_RebaseFrame ==
    RebaseReturned =>
        IF rule.type \in {"once", "manual", "delay"} \/ from = Null
        THEN result = rule
        ELSE /\ result.type = "schedule"
             /\ result.base = floorDate(from, rule.base, rule.period)
             /\ result.period = rule.period
             /\ result.offsets = rule.offsets
             /\ DOMAIN result = DOMAIN rule

\* The monthly rule rebased near 2021-12-25T12:20: the base moves from
\* 2021-10-31 to 2021-12-01, period and the two offsets stay.
C11_Witness ==
    /\ RebaseReturned
    /\ rule = MonthlyRule
    /\ from = TestNow
    /\ result.base = DateOf(2021, 12, 1, 0)
    /\ result.offsets = <<ZeroDuration, Days(-2)>>

-----------------------------------------------------------------------------
(* Claims about the single actions of applyAction, checked under Spec *)

\* The last applyAction call was a seekBack or a seekForward.
SeekApplied == action \in {"seekBack", "seekForward"}

\* The events of the last call are exactly one Update.
OneUpdate == Len(events) = 1 /\ events[1].type = "update"

\* The task a seek is to produce from t: rule r is the rebased rule.
SoughtTask(t, r, forward_) ==
    [t EXCEPT !.repeat = r,
              !.scheduledDate =
                  IF repeatSeek(r, t.scheduledDate, forward_) # Null
                  THEN repeatSeek(r, t.scheduledDate, forward_)
                  ELSE t.scheduledDate]

\* C12: a seek on a task with a scheduledDate emits one Update whose repeat is
\* rebase(repeat, scheduledDate) and whose scheduledDate is what seek finds in
\* that rule from the task's scheduledDate, or the old scheduledDate when seek
\* finds none; the other fields are kept and now plays no part.
C12_SeekScheduled ==
    (SeekApplied /\ input.scheduledDate # Null) =>
        /\ OneUpdate
        /\ events[1].task =
              SoughtTask(input, repeatRebase(input.repeat, input.scheduledDate),
                         action = "seekForward")
        /\ \A n \in Nows : applyAction(action, input, n) = events

\* seekForward on a task scheduled on 2021-12-25 with the monthly rule: the rule
\* is rebased to 2021-12-01 and the date moves to 2021-12-30.
C12_Witness ==
    /\ action = "seekForward"
    /\ input.repeat = MonthlyRule
    /\ input.scheduledDate = Origin
    /\ events[1].task.repeat.base = DateOf(2021, 12, 1, 0)
    /\ events[1].task.scheduledDate = DateOf(2021, 12, 30, 0)

\* C13: a seek on a task without scheduledDate emits one Update whose task is
\* the input task in every field, the rule not rebased.
C13_SeekUnscheduled ==
    (SeekApplied /\ input.scheduledDate = Null) =>
        /\ OneUpdate
        /\ events[1].task = input

\* seekBack on an unscheduled task carrying the monthly schedule.
C13_Witness ==
    /\ action = "seekBack"
    /\ input.scheduledDate = Null
    /\ input.repeat = MonthlyRule
    /\ OneUpdate
    /\ events[1].task.repeat = MonthlyRule

\* C14: start emits one Update whose task is started at now with no end time,
\* whatever the lifecycle was, and keeps name, scheduledDate and repeat.
C14_Start ==
    action = "start" =>
        /\ OneUpdate
        /\ events[1].task.state = "started"
        /\ events[1].task.startEpochMs = now
        /\ events[1].task.endEpochMs = Null
        /\ events[1].task.name = input.name
        /\ events[1].task.scheduledDate = input.scheduledDate
        /\ events[1].task.repeat = input.repeat

\* start on a completed task at a now other than its old start time.
C14_Witness ==
    /\ action = "start"
    /\ input.state = "completed"
    /\ input.startEpochMs # now
    /\ events[1].task.state = "started"
    /\ events[1].task.startEpochMs = now

\* C15: cancel emits one Update whose task is pending with no start and no end
\* time, whatever the lifecycle was, and keeps name, scheduledDate and repeat.
C15_Cancel ==
    action = "cancel" =>
        /\ OneUpdate
        /\ events[1].task.state = "pending"
        /\ events[1].task.startEpochMs = Null
        /\ events[1].task.endEpochMs = Null
        /\ events[1].task.name = input.name
        /\ events[1].task.scheduledDate = input.scheduledDate
        /\ events[1].task.repeat = input.repeat

\* cancel on a started task: its start time is cleared.
C15_Witness ==
    /\ action = "cancel"
    /\ input.state = "started"
    /\ input.startEpochMs # Null
    /\ events[1].task.state = "pending"
    /\ events[1].task.startEpochMs = Null

\* The lifecycle changes of the state diagram: <<from, action, to>>.
DiagramChanges ==
    {<<"pending", "start", "started">>,
     <<"started", "cancel", "pending">>,
     <<"pending", "complete", "completed">>,
     <<"started", "complete", "completed">>,
     <<"completed", "start", "started">>}

\* The last call emitted an Update that changed the state tag of the task.
LifecycleChanged ==
    /\ action # "none"
    /\ events[1].type = "update"
    /\ events[1].task.state # input.state

\* C17 as stated: every lifecycle change made by an Update is one of the five
\* of the state diagram; in particular none leads from completed to pending.
C17_DiagramOnly ==
    LifecycleChanged =>
        <<input.state, action, events[1].task.state>> \in DiagramChanges

\* C17 amended: every lifecycle change made by an Update is one of the five of
\* the state diagram or completed to pending via cancel; seekBack and
\* seekForward never change the lifecycle.
C17_Transitions ==
    LifecycleChanged =>
        <<input.state, action, events[1].task.state>>
            \in DiagramChanges \cup {<<"completed", "cancel", "pending">>}

\* cancel applied to a completed task made it pending.
C17_Witness ==
    /\ LifecycleChanged
    /\ <<input.state, action, events[1].task.state>>
          = <<"completed", "cancel", "pending">>

\* C20: for Once and Manual rules seek returns none for every from and both
\* directions, and a seek on a task with such a rule emits one Update whose
\* task is identical to the input task.
C20_OnceManualSeek ==
    (SeekApplied /\ input.repeat.type \in {"once", "manual"}) =>
        /\ \A d \in ScheduledDates \ {Null} : \A f \in BOOLEAN :
              repeatSeek(input.repeat, d, f) = Null
        /\ OneUpdate
        /\ events[1].task = input

\* seekBack on a scheduled task with the manual rule left it as it was.
C20_Witness ==
    /\ action = "seekBack"
    /\ input.repeat = Manual
    /\ input.scheduledDate = Origin
    /\ OneUpdate
    /\ events[1].task.scheduledDate = Origin

-----------------------------------------------------------------------------
(* Claims about repeatSeek on Delay rules, checked under SpecFn *)

\* C19: for a Delay rule seek returns from + delay when forward and
\* from + negate(delay) otherwise, and never none.
C19_DelaySeek ==
    (fn = "seek" /\ rule.type = "delay") =>
        /\ result # Null
        /\ result = datePlusDuration(from, IF forward THEN rule.delay
                                           ELSE negateDuration(rule.delay))

\* Seeking backward by a delay of -36 hours from 2021-12-25T12:20 moves to
\* 2021-12-27T00:20.
C19_Witness ==
    /\ fn = "seek"
    /\ rule = Delay(Hours(-36))
    /\ from = TestNow
    /\ ~forward
    /\ result = PlusMs(TestNow, 36 * 60 * 60 * 1000)

-----------------------------------------------------------------------------
(* Claims about "delete" in both revisions, checked under SpecRevisions *)

\* C16 as stated: in every revision applyAction(Delete, task, now) returns
\* exactly the one-element list [Delete], carrying no task.
C16_DeleteEveryRevision ==
    [][(DoDelete \/ TasksDelete) => events' = <<[type |-> "delete"]>>]_vars

\* C16 amended: applyAction(Delete, task, now) returns exactly [Delete],
\* carrying no task; the earlier revision, which returns tasks, returns the
\* empty list.
C16_Delete ==
    [][/\ DoDelete => events' = <<[type |-> "delete"]>>
       /\ TasksDelete => events' = <<>>]_vars

\* A delete of the earlier revision on a started task returned no task.
C16_Witness ==
    /\ action = "delete"
    /\ input # Null
    /\ input.state = "started"
    /\ events = <<>>

-----------------------------------------------------------------------------
(* Claims about TaskView, checked under SpecView *)

\* C18: Delete is terminal for the task of a TaskView: once a Delete event was
\* handed to the callback, no later user action hands it another Update,
\* Create or Delete event, so a Delete is always the last event emitted.
C18_DeleteTerminal ==
    \A i \in 1..Len(emitted) :
        emitted[i].type = "delete" => i = Len(emitted)

-----------------------------------------------------------------------------
(* The conversions and the duration arithmetic as a state machine: one     *)
(* action per function applied, on texts and instants drawn from bounded   *)
(* sets.                                                                   *)

\* The duration text made of the designators ds.
durationText(ds) == [kind |-> "duration", text |-> ds]

\* The designator "T" that starts the time part of a duration text.
TimeMark == [n |-> 0, u |-> "T"]

\* Duration texts: the texts of the parseDuration and serializeDuration tests
\* of the source, texts with seconds 0 and milliseconds alone, with a
\* negative time part, with components that cancel, and texts that the regex
\* of parseDuration rejects.
DurationTexts ==
    {durationText(<<[n |-> 1, u |-> "Y"], [n |-> 2, u |-> "M"],
                    [n |-> 3, u |-> "D"], TimeMark, [n |-> 4, u |-> "H"],
                    [n |-> 5, u |-> "M"], [n |-> 6007, u |-> "S"]>>),
     durationText(<<[n |-> -1, u |-> "Y"], [n |-> -2, u |-> "M"],
                    [n |-> -3, u |-> "D"], TimeMark, [n |-> -4, u |-> "H"],
                    [n |-> -5, u |-> "M"], [n |-> -6007, u |-> "S"]>>),
     durationText(<<TimeMark, [n |-> 0, u |-> "S"]>>),
     durationText(<<[n |-> 0, u |-> "D"]>>),
     durationText(<<>>),
     durationText(<<TimeMark, [n |-> 125, u |-> "S"]>>),
     durationText(<<TimeMark, [n |-> -7, u |-> "S"]>>),
     durationText(<<TimeMark, [n |-> 6000, u |-> "S"]>>),
     durationText(<<TimeMark, [n |-> -1500, u |-> "S"]>>),
     durationText(<<TimeMark, [n |-> 61999, u |-> "S"]>>),
     durationText(<<[n |-> 2, u |-> "M"]>>),
     durationText(<<[n |-> 7, u |-> "D"]>>),
     durationText(<<[n |-> -1, u |-> "D"]>>),
     durationText(<<TimeMark, [n |-> 36, u |-> "H"]>>),
     durationText(<<TimeMark, [n |-> 2, u |-> "M"]>>),
     durationText(<<[n |-> 1, u |-> "D"], TimeMark, [n |-> 12, u |-> "H"]>>),
     durationText(<<TimeMark, [n |-> 1, u |-> "H"], [n |-> -60, u |-> "M"]>>),
     durationText(<<[n |-> 1, u |-> "D"], TimeMark, [n |-> -24, u |-> "H"]>>),
     durationText(<<TimeMark, [n |-> 1, u |-> "M"], [n |-> -60000, u |-> "S"]>>),
     durationText(<<[n |-> 1, u |-> "M"], [n |-> -31, u |-> "D"]>>),
     durationText(<<[n |-> 1, u |-> "Y"], [n |-> -365, u |-> "D"]>>),
     durationText(<<[n |-> 1, u |-> "Y"], [n |-> -12, u |-> "M"]>>),
     durationText(<<[n |-> 1, u |-> "M"]>>),
     durationText(<<[n |-> 1, u |-> "Y"]>>),
     durationText(<<[n |-> 1, u |-> "H"]>>),
     durationText(<<[n |-> 3, u |-> "D"], [n |-> 1, u |-> "Y"]>>),
     durationText(<<TimeMark, [n |-> 5, u |-> "S"], [n |-> 4, u |-> "H"]>>),
     durationText(<<[n |-> 1, u |-> "W"]>>)}

\* Instants the durations are added to.
TextDates ==
    {Epoch, TestNow, DateOf(2020, 2, 29, 0), DateOf(2021, 12, 31, 0),
     DateOf(2022, 1, 31, 0), DateOf(2022, 2, 10, 0), DateOf(2022, 3, 1, 0)}

\* A repeat text: the tokens between the spaces of the string.
repeatText(tokens) == [kind |-> "repeat", tokens |-> tokens]

word(w) == [kind |-> "word", word |-> w]

\* Tokens of repeat texts: durations, instants, and tokens that are neither.
P1M == durationText(<<[n |-> 1, u |-> "M"]>>)
P0D == durationText(<<[n |-> 0, u |-> "D"]>>)
P7D == durationText(<<[n |-> 7, u |-> "D"]>>)
BadDuration == durationText(<<[n |-> 1, u |-> "H"]>>)
Day20210101 == [kind |-> "date", year |-> 2021, month |-> 1, date |-> 1, ms |-> 0]
BadDate == [kind |-> "date", year |-> 2021, month |-> 13, date |-> 45, ms |-> 0]
EmptyToken == [kind |-> "empty"]

\* Repeat texts: the texts of the parseRepeat tests of the source, and texts
\* with an unknown keyword, a wrong number of tokens, no offset, an empty
\* token, or a token that is no duration or no instant.
RepeatTexts ==
    {repeatText(<<word("once")>>),
     repeatText(<<word("manual")>>),
     repeatText(<<word("delay"), P7D>>),
     repeatText(<<word("schedule"), Day20210101, P1M, P0D>>),
     repeatText(<<word("schedule"), Day20210101, P1M, P0D, P7D>>),
     repeatText(<<word("schedule"), Day20210101, P0D, P7D>>),
     repeatText(<<EmptyToken>>),
     repeatText(<<word("daily")>>),
     repeatText(<<word("once"), EmptyToken>>),
     repeatText(<<word("once"), P7D>>),
     repeatText(<<word("manual"), word("once")>>),
     repeatText(<<word("delay")>>),
     repeatText(<<word("delay"), EmptyToken>>),
     repeatText(<<word("delay"), BadDuration>>),
     repeatText(<<word("delay"), Day20210101>>),
     repeatText(<<word("delay"), word("once")>>),
     repeatText(<<word("delay"), P7D, P7D>>),
     repeatText(<<word("schedule")>>),
     repeatText(<<word("schedule"), Day20210101>>),
     repeatText(<<word("schedule"), Day20210101, P1M>>),
     repeatText(<<word("schedule"), Day20210101, P1M, EmptyToken>>),
     repeatText(<<word("schedule"), Day20210101, P1M, P0D, EmptyToken>>),
     repeatText(<<word("schedule"), Day20210101, P1M, BadDuration>>),
     repeatText(<<word("schedule"), Day20210101, P1M, P0D, BadDuration>>),
     repeatText(<<word("schedule"), Day20210101, BadDuration, P0D>>),
     repeatText(<<word("schedule"), BadDate, P1M, P0D>>),
     repeatText(<<word("schedule"), P1M, P1M, P0D>>),
     repeatText(<<word("schedule"), Day20210101, Day20210101, P0D>>),
     repeatText(<<P7D>>),
     repeatText(<<Day20210101, P1M, P0D>>)}

InitText ==
    /\ cfn = "none"
    /\ carg \in DurationTexts \cup RepeatTexts
    /\ cdate \in TextDates
    /\ cresult = Null
    /\ TaskIdle
    /\ FnIdle
    /\ FloorIdle
    /\ ViewIdle
    /\ MemoIdle

\* parseDuration(s)
DoParseDuration ==
    /\ cfn = "none"
    /\ carg.kind = "duration"
    /\ cresult' = parseDuration(carg)
    /\ cfn' = "parseDuration"
    /\ UNCHANGED <<carg, cdate, taskVars, fnVars, floorVars, viewVars, memoVars>>

\* serializeDuration(d) of the duration d that parseDuration returned
DoSerializeDuration ==
    /\ cfn = "parseDuration"
    /\ cresult # Null
    /\ carg' = cresult
    /\ cresult' = serializeDuration(cresult)
    /\ cfn' = "serializeDuration"
    /\ UNCHANGED <<cdate, taskVars, fnVars, floorVars, viewVars, memoVars>>

\* serializeDuration(d) of the earlier revision
DoSerializeDurationSeconds ==
    /\ cfn = "parseDuration"
    /\ cresult # Null
    /\ carg' = cresult
    /\ cresult' = serializeDurationSeconds(cresult)
    /\ cfn' = "serializeDurationSeconds"
    /\ UNCHANGED <<cdate, taskVars, fnVars, floorVars, viewVars, memoVars>>

\* parseDuration(serializeDuration(d))
DoParseSerialized ==
    /\ cfn = "serializeDuration"
    /\ cresult' = parseDuration(cresult)
    /\ cfn' = "parseSerialized"
    /\ UNCHANGED <<carg, cdate, taskVars, fnVars, floorVars, viewVars, memoVars>>

\* durationIsZero(d)
DoIsZero ==
    /\ cfn = "parseDuration"
    /\ cresult # Null
    /\ carg' = cresult
    /\ cresult' = durationIsZero(cresult)
    /\ cfn' = "durationIsZero"
    /\ UNCHANGED <<cdate, taskVars, fnVars, floorVars, viewVars, memoVars>>

\* datePlusDuration(x, d)
DoAdd ==
    /\ cfn = "parseDuration"
    /\ cresult # Null
    /\ carg' = cresult
    /\ cresult' = datePlusDuration(cdate, cresult)
    /\ cfn' = "datePlusDuration"
    /\ UNCHANGED <<cdate, taskVars, fnVars, floorVars, viewVars, memoVars>>

\* datePlusDuration(datePlusDuration(x, d), negateDuration(d))
DoAddNegated ==
    /\ cfn = "datePlusDuration"
    /\ cresult' = datePlusDuration(cresult, negateDuration(carg))
    /\ cfn' = "negateDuration"
    /\ UNCHANGED <<carg, cdate, taskVars, fnVars, floorVars, viewVars, memoVars>>

\* parseRepeat(s)
DoParseRepeat ==
    /\ cfn = "none"
    /\ carg.kind = "repeat"
    /\ cresult' = parseRepeat(carg.tokens)
    /\ cfn' = "parseRepeat"
    /\ UNCHANGED <<carg, cdate, taskVars, fnVars, floorVars, viewVars, memoVars>>

NextText ==
    \/ DoParseDuration
    \/ DoSerializeDuration
    \/ DoSerializeDurationSeconds
    \/ DoParseSerialized
    \/ DoIsZero
    \/ DoAdd
    \/ DoAddNegated
    \/ DoParseRepeat

SpecText == InitText /\ [][NextText]_vars

-----------------------------------------------------------------------------
(* Claims about the conversions and the duration arithmetic, checked under *)
(* SpecText                                                                *)

\* C21: parsing the serialization of a duration that parseDuration produced
\* gives that duration back, also when its seconds are 0 and its milliseconds
\* are not, and when seconds and milliseconds are negative.
C21_DurationRoundTrip ==
    cfn = "parseSerialized" => cresult = carg

C21_Witness ==
    /\ cfn = "parseSerialized"
    /\ carg.seconds < 0
    /\ carg.milliseconds < 0
    /\ cresult = carg

\* C22: adding a duration without years and months to an instant and then
\* adding its negation gives the instant back.
C22_AddNegate ==
    (cfn = "negateDuration" /\ carg.years = 0 /\ carg.months = 0)
        => cresult = cdate

C22_Witness ==
    /\ cfn = "negateDuration"
    /\ carg.years = 0
    /\ carg.months = 0
    /\ carg.days # 0
    /\ carg.hours # 0
    /\ cresult = cdate

\* C23: durationIsZero accepts a duration exactly when adding the duration
\* to an instant gives that instant, for every instant.
C23_ZeroMovesNothing ==
    cfn = "durationIsZero"
        => (cresult <=> \A x \in TextDates : datePlusDuration(x, carg) = x)

\* The text serializeDuration writes for the duration whose components are
\* all 0.
ZeroSentinel == durationText(<<[n |-> 0, u |-> "D"]>>)

\* No two components of the duration have opposite signs.
OneSign(d) == NonNegative(d) \/ NonNegative(negateDuration(d))

\* C24 as stated: durationIsZero accepts a duration exactly when
\* serializeDuration writes the all-zero sentinel for it, also when its
\* components cancel.
C24_ZeroIffSentinel ==
    cfn = "durationIsZero"
        => (cresult <=> serializeDuration(carg) = ZeroSentinel)

\* C24: for a duration whose components do not have opposite signs,
\* durationIsZero accepts it exactly when serializeDuration writes the
\* all-zero sentinel for it.
C24_ZeroIffSentinelOneSign ==
    (cfn = "durationIsZero" /\ OneSign(carg))
        => (cresult <=> serializeDuration(carg) = ZeroSentinel)

C24_Witness ==
    /\ cfn = "durationIsZero"
    /\ OneSign(carg)
    /\ cresult
    /\ serializeDuration(carg) = ZeroSentinel

\* The designator is one of a component that is not 0.
isNonZero(c) == c.n # 0

\* The calendar components of the duration that are not 0, in the order
\* years, months, days.
NonZeroDate(d) ==
    SelectSeq(<<[n |-> d.years, u |-> "Y"], [n |-> d.months, u |-> "M"],
                [n |-> d.days, u |-> "D"]>>, isNonZero)

\* The time components of the duration that are not 0, in the order hours,
\* minutes, seconds with milliseconds.
NonZeroTime(d) ==
    SelectSeq(<<[n |-> d.hours, u |-> "H"], [n |-> d.minutes, u |-> "M"],
                [n |-> d.seconds * 1000 + d.milliseconds, u |-> "S"]>>,
              isNonZero)

\* The non-zero components in order, the time part after a "T"; P0D when
\* there is none.
NonZeroOnly(d) ==
    IF NonZeroDate(d) = <<>> /\ NonZeroTime(d) = <<>>
    THEN ZeroSentinel
    ELSE IF NonZeroTime(d) = <<>>
         THEN durationText(NonZeroDate(d))
         ELSE durationText(NonZeroDate(d) \o <<TimeMark>> \o NonZeroTime(d))

\* C25 as stated: serializeDuration writes the non-zero components only, in
\* the order years, months, days, hours, minutes, seconds, and P0D when every
\* component is 0; every revision of serializeDuration writes P0D then.
C25_SentinelEveryRevision ==
    /\ cfn = "serializeDuration" => cresult = NonZeroOnly(carg)
    /\ (cfn = "serializeDurationSeconds" /\ carg = ZeroDuration)
            => cresult = ZeroSentinel

\* The hours and minutes of the duration that are not 0, in this order.
NonZeroHoursMinutes(d) ==
    SelectSeq(<<[n |-> d.hours, u |-> "H"], [n |-> d.minutes, u |-> "M"]>>,
              isNonZero)

\* What the earlier revision writes before the seconds: the non-zero
\* calendar components, a "T", the non-zero hours and minutes.
BeforeSeconds(d) == NonZeroDate(d) \o <<TimeMark>> \o NonZeroHoursMinutes(d)

\* The text is BeforeSeconds and then the seconds up to an "S", whatever the
\* seconds are.  When the milliseconds are not negative the seconds are one
\* number, and for seconds that are not negative and milliseconds of at most
\* three digits it reads as their count of milliseconds.
TimePartWithSeconds(d, text) ==
    /\ Len(text) > Len(BeforeSeconds(d))
    /\ SubSeq(text, 1, Len(BeforeSeconds(d))) = BeforeSeconds(d)
    /\ text[Len(text)].u = "S"
    /\ (d.milliseconds >= 0 => Len(text) = Len(BeforeSeconds(d)) + 1)
    /\ (d.seconds >= 0 /\ d.milliseconds \in 0..999)
          => text[Len(text)].n = d.seconds * 1000 + d.milliseconds

\* C25: serializeDuration writes the non-zero components only, in the order
\* years, months, days, hours, minutes, seconds, and P0D when every component
\* is 0; the earlier revision of serializeDuration writes the "T" and the
\* seconds for every duration, after the non-zero components before them, and
\* so PT0S when every component is 0.
C25_NonZeroOnly ==
    /\ cfn = "serializeDuration" => cresult = NonZeroOnly(carg)
    /\ cfn = "serializeDurationSeconds" =>
          /\ cresult.kind = "duration"
          /\ TimePartWithSeconds(carg, cresult.text)
          /\ (carg = ZeroDuration
                => cresult = durationText(<<TimeMark, [n |-> 0, u |-> "S"]>>))

\* The earlier revision wrote P7DT0S for seven days.
C25_Witness ==
    /\ cfn = "serializeDurationSeconds"
    /\ carg = Days(7)
    /\ cresult = durationText(<<[n |-> 7, u |-> "D"], TimeMark,
                                [n |-> 0, u |-> "S"]>>)

\* n / 1000 truncated toward zero.
truncated1000(n) == IF n >= 0 THEN n \div 1000 ELSE -((-n) \div 1000)

\* The number of milliseconds the seconds designator of the text stands for,
\* 0 when the text has none.
writtenMs(s) ==
    IF s.text # <<>> /\ s.text[Len(s.text)].u = "S"
    THEN s.text[Len(s.text)].n
    ELSE 0

\* C26: the milliseconds of a parsed duration lie in -999..999 and never
\* have the sign opposite to the seconds; a seconds value of n milliseconds
\* is split into n / 1000 truncated toward zero and the remainder.
C26_MillisecondsSplit ==
    (cfn = "parseDuration" /\ cresult # Null)
        => /\ cresult.milliseconds \in -999..999
           /\ ~(cresult.milliseconds < 0 /\ cresult.seconds > 0)
           /\ ~(cresult.milliseconds > 0 /\ cresult.seconds < 0)
           /\ cresult.seconds = truncated1000(writtenMs(carg))
           /\ cresult.milliseconds
                = writtenMs(carg) - 1000 * truncated1000(writtenMs(carg))

C26_Witness ==
    /\ cfn = "parseDuration"
    /\ writtenMs(carg) = -1500
    /\ cresult.seconds = -1
    /\ cresult.milliseconds = -500

\* The tokens are one of: once; manual; delay and a valid duration; schedule,
\* a valid instant, a valid period and one or more valid offsets.
WellFormedRepeat(tokens) ==
    \/ tokens = <<word("once")>>
    \/ tokens = <<word("manual")>>
    \/ /\ Len(tokens) = 2
       /\ tokens[1] = word("delay")
       /\ parseDuration(tokens[2]) # Null
    \/ /\ Len(tokens) >= 4
       /\ tokens[1] = word("schedule")
       /\ parseDate(tokens[2]) # Null
       /\ \A i \in 3..Len(tokens) : parseDuration(tokens[i]) # Null

\* The rule variant the first token of a well-formed repeat text names.
RuleNamed(tokens, r) == r.type = tokens[1].word

\* C27: parseRepeat returns a rule exactly for once, manual, delay with one
\* valid duration, and schedule with a valid instant, a valid period and one
\* or more valid offsets; for every other text it returns null.
C27_ParseRepeatAccepts ==
    cfn = "parseRepeat"
        => IF WellFormedRepeat(carg.tokens)
           THEN cresult # Null /\ RuleNamed(carg.tokens, cresult)
           ELSE cresult = Null

C27_Witness ==
    /\ cfn = "parseRepeat"
    /\ Len(carg.tokens) = 3
    /\ carg.tokens[1] = word("schedule")
    /\ parseDate(carg.tokens[2]) # Null
    /\ parseDuration(carg.tokens[3]) # Null
    /\ cresult = Null

-----------------------------------------------------------------------------
(* SpecPure: applyAction called again and again by a caller that keeps the *)
(* record of one earlier call.  Here input is the task the last call was   *)
(* given.                                                                  *)

\* Calls made after the kept one, at most.
MaxBetween == 2

\* The caller keeps scheduledDate within this many days of Origin.
MaxPureDrift == 3

WithinPureDrift(t) ==
    \/ t.scheduledDate = Null
    \/ /\ IsValid(t.scheduledDate)
       /\ t.scheduledDate.day - Origin.day <= MaxPureDrift
       /\ Origin.day - t.scheduledDate.day <= MaxPureDrift

ActionTypes == {"delete", "start", "cancel", "complete", "seekBack", "seekForward"}

PureTasks ==
    {[name |-> "foo", scheduledDate |-> d, repeat |-> r, state |-> "pending",
      startEpochMs |-> Null, endEpochMs |-> Null] :
        d \in {Origin},
        r \in {Manual, Delay(Days(3)), Delay(DaysHours(1, 12)), WeeklyRule}}

InitPure ==
    /\ task \in PureTasks
    /\ events = <<>>
    /\ action = "none"
    /\ now = Null
    /\ input = Null
    /\ MemoIdle
    /\ FnIdle
    /\ FloorIdle
    /\ ViewIdle
    /\ ConvIdle

\* applyAction(action, task, now); the task of an Update replaces the task.
ApplyActionCall ==
    \E a \in ActionTypes, n \in Nows :
        /\ memo # Null => memo.calls < MaxBetween
        /\ events' = applyAction(a, task, n)
        /\ input' = task
        /\ task' = taskAfter(task, events')
        /\ WithinPureDrift(task')
        /\ action' = a
        /\ now' = n
        /\ memo' = IF memo = Null
                   THEN Null
                   ELSE [memo EXCEPT !.calls = memo.calls + 1]
        /\ UNCHANGED <<heap, held, fnVars, floorVars, viewVars, convVars>>

\* The caller keeps the arguments and the result of the call just made.
KeepCall ==
    /\ memo = Null
    /\ action # "none"
    /\ memo' = [action |-> action, task |-> input, now |-> now,
                events |-> events, calls |-> 0]
    /\ UNCHANGED <<heap, held, taskVars, fnVars, floorVars, viewVars, convVars>>

NextPure ==
    \/ ApplyActionCall
    \/ KeepCall

SpecPure == InitPure /\ [][NextPure]_vars

-----------------------------------------------------------------------------
(* SpecObjects: applyAction run on objects.  heap maps the addresses of    *)
(* the live objects to their contents: a Date object holds its time value, *)
(* a task object its fields with scheduledDate and repeat as addresses, a  *)
(* rule object its fields with base as an address; 0 is the null           *)
(* reference.  Durations and arrays of durations are held by value: they   *)
(* have no setter and no statement assigns to a property of one.  Every    *)
(* function of the call tree takes the heap it starts from and returns     *)
(* the heap it leaves, with its return value.                              *)

\* The address of the object created last.
lastAddress(h) ==
    IF DOMAIN h = {}
    THEN 0
    ELSE CHOOSE m \in DOMAIN h : \A x \in DOMAIN h : x <= m

\* The heap after an object with these contents was created.
allocated(h, contents) == h @@ ((lastAddress(h) + 1) :> contents)

\* A function leaves heap h and returns value.
returning(h, value) == [heap |-> h, value |-> value]

\* A function leaves heap h and returns the object created last.
returningNew(h) == [heap |-> h, value |-> lastAddress(h)]

\* date.setFullYear(...); date.setMonth(...); date.setDate(...)
setDateFields(h, date, duration) ==
    [h EXCEPT ![date] = AddDays(AddMonths(AddYears(h[date], duration.years),
                                          duration.months),
                                duration.days)]

\* return new Date(date.valueOf() + deltaMs)
newDatePlusMs(h, date, duration) ==
    returningNew(allocated(h, PlusMs(h[date], deltaMsOf(duration))))

\* datePlusDuration whose setters act on the Date it is given:
\* const date = startDate
datePlusDurationInPlace(h, startDate, duration) ==
    newDatePlusMs(setDateFields(h, startDate, duration), startDate, duration)

\* const date = new Date(startDate.valueOf()), the setters on date, the
\* return of a new Date
datePlusDurationOn(h, startDate, duration) ==
    newDatePlusMs(setDateFields(allocated(h, h[startDate]),
                                lastAddress(h) + 1, duration),
                  lastAddress(h) + 1, duration)

\* ....valueOf() === 0
isEpoch(run) == returning(run.heap, run.heap[run.value] = Epoch)

\* datePlusDuration(new Date(0), duration).valueOf() === 0
durationIsZeroOn(h, duration) ==
    isEpoch(datePlusDurationOn(allocated(h, Epoch), lastAddress(h) + 1, duration))

\* First loop of floorDate, date being run.value.
RECURSIVE floorForwardOn(_, _, _)
floorForwardOn(run, targetDate, period) ==
    IF DateLT(run.heap[run.value], run.heap[targetDate])
    THEN floorForwardOn(datePlusDurationOn(run.heap, run.value, period),
                        targetDate, period)
    ELSE run

\* Second loop of floorDate, date being run.value.
RECURSIVE floorBackwardOn(_, _, _)
floorBackwardOn(run, targetDate, period) ==
    IF DateLT(run.heap[targetDate], run.heap[run.value])
    THEN floorBackwardOn(datePlusDurationOn(run.heap, run.value,
                                            negateDuration(period)),
                         targetDate, period)
    ELSE run

\* floorDate after durationIsZero(period) returned zero.value: targetDate
\* itself, or let date = baseDate and the two loops.
floorDateAfter(zero, targetDate, baseDate, period) ==
    IF zero.value
    THEN returning(zero.heap, targetDate)
    ELSE floorBackwardOn(floorForwardOn(returning(zero.heap, baseDate),
                                        targetDate, period),
                         targetDate, period)

floorDateOn(h, targetDate, baseDate, period) ==
    floorDateAfter(durationIsZeroOn(h, period), targetDate, baseDate, period)

\* { ...repeat, base: floor.value }
rebasedRule(floor, repeat) ==
    returningNew(allocated(floor.heap,
                           [floor.heap[repeat] EXCEPT !.base = floor.value]))

\* repeatRebase: the rule object itself when near is null or the rule is no
\* schedule.
repeatRebaseOn(h, repeat, near) ==
    IF near = 0
    THEN returning(h, repeat)
    ELSE IF h[repeat].type \in {"once", "manual", "delay"}
         THEN returning(h, repeat)
         ELSE rebasedRule(floorDateOn(h, near, h[repeat].base, h[repeat].period),
                          repeat)

\* const bases = [before, floor, after], after being added last.
seekBasesOf(before, floor, after) ==
    returning(after.heap, <<before, floor, after.value>>)

seekBasesAfter(before, floor, period) ==
    seekBasesOf(before.value, floor,
                datePlusDurationOn(before.heap, floor, period))

seekBasesOn(floor, period) ==
    seekBasesAfter(datePlusDurationOn(floor.heap, floor.value,
                                      negateDuration(period)),
                   floor.value, period)

\* dates.push(added.value)
pushed(dates, added) == returning(added.heap, Append(dates, added.value))

\* The two loops of repeatSeek over bases and offsets from the k-th pair on,
\* run.value being dates.
RECURSIVE seekDatesOn(_, _, _, _)
seekDatesOn(run, bases, offsets, k) ==
    IF k > 3 * Len(offsets)
    THEN run
    ELSE seekDatesOn(
             pushed(run.value,
                    datePlusDurationOn(run.heap,
                                       bases[((k - 1) \div Len(offsets)) + 1],
                                       offsets[((k - 1) % Len(offsets)) + 1])),
             bases, offsets, k + 1)

\* The linear scan of repeatSeek from index i on; closest is a Date object or
\* null.
RECURSIVE seekClosestOn(_, _, _, _, _, _)
seekClosestOn(h, dates, i, closest, from_, forward_) ==
    IF i > Len(dates)
    THEN closest
    ELSE seekClosestOn(h, dates, i + 1,
                       IF /\ signedLT(h[from_], h[dates[i]], forward_)
                          /\ (closest = 0 \/ signedLT(h[dates[i]], h[closest], forward_))
                       THEN dates[i]
                       ELSE closest,
                       from_, forward_)

\* return closest
closestOn(dates, from_, forward_) ==
    returning(dates.heap,
              seekClosestOn(dates.heap, dates.value, 1, 0, from_, forward_))

\* let dates = [] and the loops over bases.value
seekDatesOfBases(bases, offsets) ==
    seekDatesOn(returning(bases.heap, <<>>), bases.value, offsets, 1)

repeatSeekOn(h, repeat, from_, forward_) ==
    CASE h[repeat].type \in {"once", "manual"} -> returning(h, 0)
      [] h[repeat].type = "delay" ->
            datePlusDurationOn(h, from_, IF forward_ THEN h[repeat].delay
                                         ELSE negateDuration(h[repeat].delay))
      [] h[repeat].type = "schedule" ->
            closestOn(
                seekDatesOfBases(
                    seekBasesOn(floorDateOn(h, from_, h[repeat].base,
                                            h[repeat].period),
                                h[repeat].period),
                    h[repeat].offsets),
                from_, forward_)

\* [{ type: "update", task: { ...task, ... } }], the task being the object
\* created last.
updateOfNew(h) == returning(h, <<[type |-> "update", task |-> lastAddress(h)]>>)

\* events.push({ type: "create", task: { ...task, scheduledDate, repeat,
\* state: "pending", startEpochMs: null, endEpochMs: null } })
createPushed(evs, task_, repeat, scheduledDate) ==
    returning(allocated(scheduledDate.heap,
                        [scheduledDate.heap[task_] EXCEPT
                            !.scheduledDate = scheduledDate.value,
                            !.repeat = repeat,
                            !.state = "pending",
                            !.startEpochMs = Null,
                            !.endEpochMs = Null]),
              Append(evs, [type |-> "create",
                           task |-> lastAddress(scheduledDate.heap) + 1]))

\* const scheduledDate = repeatSeek(repeat, now, true) and the push
successorOn(evs, task_, repeat, now_) ==
    createPushed(evs, task_, repeat.value,
                 repeatSeekOn(repeat.heap, repeat.value, now_, TRUE))

\* The case "complete" after its array of one Update was created.
completeAfterUpdate(update, task_, now_) ==
    IF update.heap[update.heap[task_].repeat].type # "once"
    THEN successorOn(update.value, task_,
                     repeatRebaseOn(update.heap, update.heap[task_].repeat, now_),
                     now_)
    ELSE update

\* The Update of "complete": repeat: { type: "once" } is a new object.
completeUpdate(h, task_, now_) ==
    updateOfNew(allocated(allocated(h, Once),
                          [completedTask(h[task_], h[now_]) EXCEPT
                              !.repeat = lastAddress(h) + 1]))

\* repeatSeek(...) ?? task.scheduledDate
seekOrKeepOn(found, scheduledDate) ==
    IF found.value # 0 THEN found ELSE returning(found.heap, scheduledDate)

\* [{ type: "update", task: { ...task, scheduledDate, repeat } }]
seekUpdate(task_, repeat, scheduledDate) ==
    updateOfNew(allocated(scheduledDate.heap,
                          [scheduledDate.heap[task_] EXCEPT
                              !.scheduledDate = scheduledDate.value,
                              !.repeat = repeat]))

\* The cases "seekBack" and "seekForward" after repeatRebase returned.
seekAfterRebase(repeat, task_, forward_) ==
    seekUpdate(task_, repeat.value,
               IF repeat.heap[task_].scheduledDate = 0
               THEN returning(repeat.heap, 0)
               ELSE seekOrKeepOn(repeatSeekOn(repeat.heap, repeat.value,
                                              repeat.heap[task_].scheduledDate,
                                              forward_),
                                 repeat.heap[task_].scheduledDate))

\* applyAction(action, task, now) on the objects task and now: the heap it
\* leaves and the array of events it returns, their tasks as addresses.
applyActionOn(h, action_, task_, now_) ==
    CASE action_ = "delete" -> returning(h, <<[type |-> "delete"]>>)
      [] action_ = "start" ->
            updateOfNew(allocated(h, startedTask(h[task_], h[now_])))
      [] action_ = "cancel" ->
            updateOfNew(allocated(h, cancelledTask(h[task_])))
      [] action_ = "complete" ->
            completeAfterUpdate(completeUpdate(h, task_, now_), task_, now_)
      [] action_ \in {"seekBack", "seekForward"} ->
            seekAfterRebase(repeatRebaseOn(h, h[task_].repeat,
                                           h[task_].scheduledDate),
                            task_, action_ = "seekForward")

\* What a reader of the objects sees: the time value of a Date, the rule with
\* its base, the task with its scheduledDate and its rule.
dateValue(h, date) == IF date = 0 THEN Null ELSE h[date]

ruleValue(h, repeat) ==
    IF h[repeat].type = "schedule"
    THEN [h[repeat] EXCEPT !.base = h[h[repeat].base]]
    ELSE h[repeat]

taskValue(h, task_) ==
    [h[task_] EXCEPT !.scheduledDate = dateValue(h, h[task_].scheduledDate),
                     !.repeat = ruleValue(h, h[task_].repeat)]

eventsValue(h, evs) ==
    [i \in 1..Len(evs) |->
        IF evs[i].type = "delete"
        THEN evs[i]
        ELSE [evs[i] EXCEPT !.task = taskValue(h, evs[i].task)]]

\* The objects a task object leads to, itself included.
reachable(h, task_) ==
    {task_, h[task_].repeat}
        \cup (IF h[task_].scheduledDate = 0 THEN {} ELSE {h[task_].scheduledDate})
        \cup (IF h[h[task_].repeat].type = "schedule"
              THEN {h[h[task_].repeat].base}
              ELSE {})

\* The tasks of the events.
eventTasks(evs) == {evs[i].task : i \in {j \in 1..Len(evs) : evs[j].type # "delete"}}

\* The objects that the tasks and dates held lead to.
liveObjects(h, tasks, dates) ==
    dates \cup UNION {reachable(h, t) : t \in tasks}

\* An address is not observable: the live objects are numbered in the order
\* of their creation.  The number of the live object at address a, 0 for the
\* null reference.
numberOf(live, a) ==
    IF a = 0 THEN 0 ELSE Cardinality({x \in live : x <= a})

\* The contents of an object with the references in it renumbered.
renumbered(contents, live) ==
    IF "state" \in DOMAIN contents
    THEN [contents EXCEPT !.scheduledDate = numberOf(live, @),
                          !.repeat = numberOf(live, @)]
    ELSE IF "base" \in DOMAIN contents
         THEN [contents EXCEPT !.base = numberOf(live, @)]
         ELSE contents

\* The heap of the live objects alone.
collected(h, live) ==
    [i \in 1..Cardinality(live) |->
        renumbered(h[CHOOSE a \in live : numberOf(live, a) = i], live)]

\* The events with the references in them renumbered.
renumberedEvents(evs, live) ==
    [i \in 1..Len(evs) |->
        IF evs[i].type = "delete"
        THEN evs[i]
        ELSE [evs[i] EXCEPT !.task = numberOf(live, @)]]

\* The caller creates the objects of a task: new Date(...) for scheduledDate
\* and for the base of a schedule, the rule literal and the task literal.
storedDate(h, date) ==
    IF date = Null THEN returning(h, 0) ELSE returningNew(allocated(h, date))

storedRule(h, repeat) ==
    IF repeat.type = "schedule"
    THEN returningNew(allocated(allocated(h, repeat.base),
                                [repeat EXCEPT !.base = lastAddress(h) + 1]))
    ELSE returningNew(allocated(h, repeat))

storedTaskOf(date, repeat, t) ==
    returningNew(allocated(repeat.heap,
                           [t EXCEPT !.scheduledDate = date,
                                     !.repeat = repeat.value]))

storedTaskWith(date, t) ==
    storedTaskOf(date.value, storedRule(date.heap, t.repeat), t)

storedTask(h, t) == storedTaskWith(storedDate(h, t.scheduledDate), t)

\* The tasks the caller starts from: a delay task, a task of the weekly rule
\* scheduled on 2021-12-26 (a date of the rule) and a manual task with no date.
ObjectTasks ==
    {[name |-> "foo", scheduledDate |-> Origin, repeat |-> Delay(Days(3)),
      state |-> "pending", startEpochMs |-> Null, endEpochMs |-> Null],
     [name |-> "foo", scheduledDate |-> DateOf(2021, 12, 26, 0),
      repeat |-> WeeklyRule,
      state |-> "pending", startEpochMs |-> Null, endEpochMs |-> Null],
     [name |-> "foo", scheduledDate |-> Null, repeat |-> Manual,
      state |-> "pending", startEpochMs |-> Null, endEpochMs |-> Null]}

\* The caller holds the task object it made.
HoldsStored(stored, t) ==
    /\ heap = stored.heap
    /\ held = [task |-> stored.value, input |-> 0, now |-> 0, events |-> <<>>,
               calls |-> 0]
    /\ task = t

InitObjects ==
    /\ \E t \in ObjectTasks : HoldsStored(storedTask(<<>>, t), t)
    /\ events = <<>>
    /\ action = "none"
    /\ now = Null
    /\ input = Null
    /\ memo = Null
    /\ FnIdle
    /\ FloorIdle
    /\ ViewIdle
    /\ ConvIdle

\* The task object the caller holds after the events: that of an Update
\* replaces the one it held.
taskAfterOn(task_, evs) ==
    IF evs[1].type = "update" THEN evs[1].task ELSE task_

\* The call returned run: the caller holds the task object it passed (input),
\* the Date it passed as now, the events and the task after them, and reads
\* them; live are the objects these lead to.
CallReturnedLive(a, nowAt, run, live) ==
    /\ held' = [task |-> numberOf(live, taskAfterOn(held.task, run.value)),
                input |-> numberOf(live, held.task),
                now |-> numberOf(live, nowAt),
                events |-> renumberedEvents(run.value, live),
                calls |-> held.calls + 1]
    /\ heap' = collected(run.heap, live)
    /\ events' = eventsValue(run.heap, run.value)
    /\ input' = taskValue(run.heap, held.task)
    /\ task' = taskValue(run.heap, taskAfterOn(held.task, run.value))
    /\ WithinPureDrift(task')
    /\ action' = a
    /\ now' = run.heap[nowAt]

CallReturned(a, nowAt, run) ==
    CallReturnedLive(a, nowAt, run,
                     liveObjects(run.heap, {held.task} \cup eventTasks(run.value),
                                 {nowAt}))

\* applyAction(action, task, new Date(n)) on the task object held; the
\* caller makes the first call and at most MaxBetween calls after it.
ApplyActionOnObjects ==
    \E a \in ActionTypes, n \in Nows :
        /\ held.calls <= MaxBetween
        /\ CallReturned(a, lastAddress(heap) + 1,
                        applyActionOn(allocated(heap, n), a, held.task,
                                      lastAddress(heap) + 1))
        /\ memo' = IF memo = Null
                   THEN Null
                   ELSE [memo EXCEPT !.calls = memo.calls + 1]
        /\ UNCHANGED <<fnVars, floorVars, viewVars, convVars>>

NextObjects ==
    \/ ApplyActionOnObjects
    \/ KeepCall

SpecObjects == InitObjects /\ [][NextObjects]_vars

\* What the caller read when the call returned is what the live objects
\* read, and the events are those applyAction gives for the values read
\* from the objects it was passed.
ObjectsAgree ==
    action # "none" =>
        /\ input = taskValue(heap, held.input)
        /\ task = taskValue(heap, held.task)
        /\ events = eventsValue(heap, held.events)
        /\ now = heap[held.now]
        /\ events = applyAction(action, input, now)


\* The step is one of ApplyActionCall: every step but KeepCall, which alone
\* sets memo.
CallStep == ~(memo = Null /\ memo' # Null)

\* The last call had the arguments of the kept call.
SameArguments ==
    /\ memo # Null
    /\ action = memo.action
    /\ input = memo.task
    /\ now = memo.now

\* C28: a call of applyAction leaves the task object it is given and the
\* objects of its repeat rule and dates with the contents they had, so that
\* the task read after the call (input) is the task read before it; and a
\* call whose arguments read as those of an earlier call returns events that
\* read as the events of that call, whatever was called in between.
C28_Pure ==
    /\ [][CallStep => input' = task]_vars
    /\ [](SameArguments => events = memo.events)

\* A seek back on the weekly schedule, a seek forward on the task object it
\* returned, and the same seek back on the task object that one returned,
\* which reads as the first; the task returned and the base of its rebased
\* rule are objects other than the ones passed.
C28_Witness ==
    /\ SameArguments
    /\ heap # <<>>
    /\ memo.calls = 2
    /\ memo.action = "seekBack"
    /\ memo.task.repeat.type = "schedule"
    /\ events = memo.events
    /\ held.events[1].task # held.input
    /\ heap[heap[held.task].repeat].base # heap[heap[held.input].repeat].base

-----------------------------------------------------------------------------
(* Claims about the save button of TaskView, checked under SpecView *)

\* The editor is open and its fields validate: the name is not empty and
\* parseRepeat accepts the repeat text.
EditorValidates ==
    /\ editor # Null
    /\ inputs.name # ""
    /\ parseRepeat(inputs.repeat) # Null

\* C29: onSave hands the callback an Update, and nothing else, exactly when
\* the editor is open and its fields validate; when they do not validate, no
\* event reaches the callback, the task of the view is unchanged, the editor
\* stays open and its error is a message; with no editor open nothing is
\* emitted.
C29_SaveValidates ==
    [][action' = "onSave"
        => IF EditorValidates
           THEN /\ Len(emitted') = Len(emitted) + 1
                /\ SubSeq(emitted', 1, Len(emitted)) = emitted
                /\ emitted'[Len(emitted')].type = "update"
           ELSE /\ emitted' = emitted
                /\ task' = task
                /\ IF editor = Null
                   THEN editor' = Null
                   ELSE editor' # Null /\ editor'.error # Null]_vars

C29_Witness ==
    /\ action = "onSave"
    /\ editor # Null
    /\ editor.error = message("Invalid repeat")
    /\ inputs.name # ""
    /\ emitted = <<>>

-----------------------------------------------------------------------------
(* Claims about repeatSeek on fixed-length periods, checked under SpecFn *)

\* The length in milliseconds of a duration without years and months.
lengthMs(d) == d.days * MsPerDay + deltaMsOf(d)

FixedLength(d) == d.years = 0 /\ d.months = 0

\* The period is fixed-length and positive, and every offset is fixed-length
\* and lies in [0, period).
RegularSchedule(r) ==
    /\ r.type = "schedule"
    /\ FixedLength(r.period)
    /\ lengthMs(r.period) > 0
    /\ \A j \in 1..Len(r.offsets) :
            /\ FixedLength(r.offsets[j])
            /\ lengthMs(r.offsets[j]) >= 0
            /\ lengthMs(r.offsets[j]) < lengthMs(r.period)

\* d lies where the occurrences next to it on either side are among the
\* enumerated ones.
InsideOccurrences(r, d) ==
    /\ DateLT(addTimes(r.base, r.period, 1 - MaxK), d)
    /\ DateLT(d, addTimes(r.base, r.period, MaxK - 1))

\* C30: for a Schedule rule with a positive fixed-length period and offsets
\* in [0, period), seek returns an occurrence strictly on the requested side
\* of from with no occurrence strictly between from and it; from itself is
\* skipped when it is an occurrence.
C30_SeekNearestRegular ==
    (SeekReturned /\ RegularSchedule(rule) /\ InsideOccurrences(rule, from))
        => /\ result # Null
           /\ result \in Occurrences(rule)
           /\ signedLT(from, result, forward)
           /\ \A o \in Occurrences(rule) :
                signedLT(from, o, forward) => ~signedLT(o, result, forward)

\* from is the base of the weekly rule, an occurrence: seeking backward skips
\* it and returns base - 7 days + 6 days, in the window before.
C30_Witness ==
    /\ SeekReturned
    /\ RegularSchedule(rule)
    /\ InsideOccurrences(rule, from)
    /\ rule = WeeklyRule
    /\ from = WeeklyRule.base
    /\ ~forward
    /\ result = DateOf(2021, 12, 18, 0)

-----------------------------------------------------------------------------
(* Claims about the direction of a seek, checked under Spec *)

\* The rule in which the last seek of applyAction looked for an occurrence.
SoughtRule == repeatRebase(input.repeat, input.scheduledDate)

\* What repeatSeek found for the last seek of applyAction; it is not called
\* for a task without scheduledDate.
SoughtDate ==
    IF input.scheduledDate = Null
    THEN Null
    ELSE repeatSeek(SoughtRule, input.scheduledDate, action = "seekForward")

\* The last seek kept its direction: the new scheduledDate is not on the wrong
\* side of the old one, and an instant found by repeatSeek is strictly on the
\* requested side of from.
SeekKeptDirection ==
    /\ ~signedLT(events[1].task.scheduledDate, input.scheduledDate,
                 action = "seekForward")
    /\ SoughtDate # Null =>
           signedLT(input.scheduledDate, SoughtDate, action = "seekForward")

\* The delay has no negative component and is not zero.
MovesForward(d) == NonNegative(d) /\ d # ZeroDuration

\* C31 as stated: for every rule, a Delay with any delay included, seekForward
\* never yields an earlier scheduledDate and seekBack never a later one, and an
\* instant returned by seek is strictly on the requested side of from.
C31_SeekDirectionAnyDelay ==
    (SeekApplied /\ input.scheduledDate # Null) => SeekKeptDirection

\* C31: for a Once, Manual or Schedule rule and for a Delay whose delay has no
\* negative component and is not zero, seekForward never yields an earlier
\* scheduledDate and seekBack never a later one, and an instant returned by seek
\* is strictly on the requested side of from; a Delay whose delay is not zero
\* and has no positive component moves the scheduledDate the other way.
C31_SeekDirection ==
    (SeekApplied /\ input.scheduledDate # Null) =>
        /\ (input.repeat.type = "delay" => MovesForward(input.repeat.delay))
               => SeekKeptDirection
        /\ (/\ input.repeat.type = "delay"
            /\ MovesForward(negateDuration(input.repeat.delay)))
               => signedLT(events[1].task.scheduledDate, input.scheduledDate,
                           action = "seekForward")

\* seekBack on a task scheduled on 2021-12-25 with a delay of three days moves
\* it to 2021-12-22.
C31_Witness ==
    /\ action = "seekBack"
    /\ input.repeat = Delay(Days(3))
    /\ input.scheduledDate = Origin
    /\ events[1].task.scheduledDate = DateOf(2021, 12, 22, 0)

-----------------------------------------------------------------------------
(* SpecSequence: one task, created Pending or Started, driven by any sequence of
   applyAction calls; emitted collects the Create events of all the calls *)

SequenceTasks == {t \in InitialTasks : t.state \in {"pending", "started"}}

\* The Create events among evs, in order.
createsOf(evs) == SelectSeq(evs, LAMBDA e : e.type = "create")

InitSequence ==
    /\ task \in SequenceTasks
    /\ events = <<>>
    /\ action = "none"
    /\ now = Null
    /\ input = Null
    /\ FnIdle
    /\ FloorIdle
    /\ ViewIdle
    /\ ConvIdle
    /\ MemoIdle

\* One more call on the current task; the task of its Update replaces it.
ApplyInSequence ==
    \E a \in ActionTypes, n \in Nows :
        /\ Len(emitted) < MaxEmitted
        /\ events' = applyAction(a, task, n)
        /\ task' = taskAfter(task, events')
        /\ WithinDrift(task')
        /\ emitted' = emitted \o createsOf(events')
        /\ action' = a
        /\ now' = n
        /\ input' = task
        /\ UNCHANGED <<editor, inputs, seen>>
        /\ UNCHANGED <<fnVars, floorVars, convVars, memoVars>>

NextSequence == ApplyInSequence

SpecSequence == InitSequence /\ [][NextSequence]_vars

\* C32: in a sequence of applyAction calls on one task at most one Create is
\* ever emitted: the call that emits it is a complete that sets the rule to
\* Once, a task with the rule Once keeps it through every action, and a
\* complete of a task with the rule Once emits one Update only.
C32_OneCreate ==
    /\ [](Len(emitted) <= 1)
    /\ [][/\ createsOf(events') # <<>> =>
                 /\ action' = "complete"
                 /\ task.repeat # Once
                 /\ task'.repeat = Once
          /\ task.repeat = Once =>
                 /\ task'.repeat = Once
                 /\ action' = "complete" =>
                        events' = <<[type |-> "update", task |-> task']>>]_vars

\* The second complete of a task whose first complete emitted a Create for the
\* weekly rule: it emits one Update only, and the one Create is all there is.
C32_Witness ==
    /\ action = "complete"
    /\ input.state = "completed"
    /\ input.repeat = Once
    /\ Len(emitted) = 1
    /\ emitted[1].task.repeat.type = "schedule"
    /\ emitted[1].task.repeat.period = Days(7)
    /\ events = <<[type |-> "update", task |-> task]>>

\* C33: from a task created Pending or Started, after any sequence of
\* applyAction calls, a current task that is Completed has the rule Once: no
\* Completed task with a Manual, Delay or Schedule rule is reached.
C33_CompletedIsOnce ==
    task.state = "completed" => task.repeat = Once

\* A task with a delay of three days was completed, which emitted the Create
\* that carries the delay, and was then sought forward: it is Completed with
\* the rule Once.
C33_Witness ==
    /\ task.state = "completed"
    /\ task.repeat = Once
    /\ action = "seekForward"
    /\ Len(emitted) = 1
    /\ emitted[1].task.repeat = Delay(Days(3))

-----------------------------------------------------------------------------
(* SpecClock: one task, created Pending, driven by applyAction calls whose now
   never goes back, as the readings of one clock *)

ClockNows == Nows \cup {Origin}

ClockTasks == {t \in InitialTasks : t.state = "pending"}

InitClock ==
    /\ task \in ClockTasks
    /\ events = <<>>
    /\ action = "none"
    /\ now = Null
    /\ input = Null
    /\ FnIdle
    /\ FloorIdle
    /\ ViewIdle
    /\ ConvIdle
    /\ MemoIdle

\* One more call, at a now that is not before the now of the call before.
ApplyAtLaterNow ==
    \E a \in ActionTypes, n \in ClockNows :
        /\ now # Null => DateLE(now, n)
        /\ events' = applyAction(a, task, n)
        /\ task' = taskAfter(task, events')
        /\ WithinDrift(task')
        /\ action' = a
        /\ now' = n
        /\ input' = task
        /\ UNCHANGED <<fnVars, floorVars, viewVars, convVars, memoVars>>

NextClock == ApplyAtLaterNow

SpecClock == InitClock /\ [][NextClock]_vars

\* C34: with nows that never go back and a task created Pending, every
\* Completed task has startEpochMs <= endEpochMs: the current task and the task
\* of every event of the last call.
C34_StartBeforeEnd ==
    /\ task.state = "completed" => DateLE(task.startEpochMs, task.endEpochMs)
    /\ \A i \in 1..Len(events) :
           (events[i].type # "delete" /\ events[i].task.state = "completed") =>
               DateLE(events[i].task.startEpochMs, events[i].task.endEpochMs)

\* A task completed at 12:20 is completed again two days later: the start
\* time stays and the end time moves on.
C34_Witness ==
    /\ action = "complete"
    /\ input.state = "completed"
    /\ input.startEpochMs = TestNow
    /\ input.endEpochMs = TestNow
    /\ task.state = "completed"
    /\ task.startEpochMs = TestNow
    /\ task.endEpochMs = DateOf(2021, 12, 27, 0)

-----------------------------------------------------------------------------
(* Claims about a seek and the seek the other way after it, checked under
   SpecPure: memo keeps the first seek, the call after it is the second *)

Seeks == {"seekBack", "seekForward"}

\* The kept call was a seek on a task with a scheduledDate and the one call
\* made since is the seek the other way on the task of its Update.
SeekThenBack ==
    /\ memo # Null
    /\ memo.calls = 1
    /\ memo.action \in Seeks
    /\ action \in Seeks \ {memo.action}
    /\ memo.task.scheduledDate # Null
    /\ input = memo.events[1].task

\* A Delay with a fixed-length delay, or a Schedule with a positive
\* fixed-length period and offsets in [0, period) of which d is an occurrence.
SeekInvertible(r, d) ==
    \/ r.type = "delay" /\ FixedLength(r.delay)
    \/ RegularSchedule(r) /\ d \in Occurrences(r)

\* C35: for a Delay with a fixed-length delay, or a Schedule with a positive
\* fixed-length period and offsets in [0, period) whose scheduledDate is an
\* occurrence, seekForward and then seekBack yields the scheduledDate the task
\* had, and so does seekBack and then seekForward.
C35_SeekBackUndoes ==
    (SeekThenBack /\ SeekInvertible(memo.task.repeat, memo.task.scheduledDate)) =>
        task.scheduledDate = memo.task.scheduledDate

\* The task with the delay P1DT12H scheduled on 2021-12-25 was sought forward
\* to 2021-12-26T12:00 and is back on 2021-12-25 after the seekBack.
C35_Witness ==
    /\ SeekThenBack
    /\ memo.action = "seekForward"
    /\ memo.task.repeat = Delay(DaysHours(1, 12))
    /\ memo.task.scheduledDate = Origin
    /\ input.scheduledDate = PlusMs(DateOf(2021, 12, 26, 0), 12 * 60 * 60 * 1000)
    /\ task.scheduledDate = Origin

-----------------------------------------------------------------------------
(* Claims about seeking in a rebased rule, checked under SpecFn *)

\* repeatSeek has returned result for rule and cresult for rule rebased to cdate.
SeekRebasedReturned == fn = "seek" /\ cfn = "seekRebased"

\* A Schedule rule with a positive fixed-length period.
PositiveFixedPeriod(r) ==
    /\ r.type = "schedule"
    /\ FixedLength(r.period)
    /\ lengthMs(r.period) > 0

\* C36: for every Schedule rule with a positive fixed-length period, every near
\* (none included) and every from, seek in the rule rebased to near returns
\* what seek in the rule itself returns, forward and backward.
C36_RebaseKeepsSeek ==
    (SeekRebasedReturned /\ PositiveFixedPeriod(rule)) => cresult = result

\* The weekly rule based on 2021-12-19 is rebased to 2022-02-10, which moves
\* the base to 2022-02-06; seeking back from 2021-12-25T12:20 finds 2021-12-25
\* in both rules.
C36_Witness ==
    /\ SeekRebasedReturned
    /\ rule = WeeklyRule
    /\ cdate = DateOf(2022, 2, 10, 0)
    /\ repeatRebase(rule, cdate).base = DateOf(2022, 2, 6, 0)
    /\ from = TestNow
    /\ ~forward
    /\ result = Origin
    /\ cresult = Origin

\* The period has no negative component and is not zero, and there is an offset.
PositivePeriod(r) ==
    /\ r.type = "schedule"
    /\ MovesForward(r.period)
    /\ Len(r.offsets) >= 1

\* A pending task with the rule r.
PendingWith(r) ==
    [name |-> "foo", scheduledDate |-> Null, repeat |-> r, state |-> "pending",
     startEpochMs |-> Null, endEpochMs |-> Null]

\* C37: for every Schedule rule with a positive period and at least one
\* offset seek returns an instant, never none, for every from and both
\* directions, and the successor that complete creates at now = from for a task
\* with such a rule has a scheduledDate.
C37_SeekNeverNone ==
    (SeekReturned /\ PositivePeriod(rule)) =>
        /\ result # Null
        /\ successorTask(PendingWith(rule), from).scheduledDate # Null

-----------------------------------------------------------------------------
(* Claims about the events a TaskView hands to its callback, checked under
   SpecView *)

\* C38: processEvents hands every event to the callback once and in list order,
\* the Update of a complete before its Create; at the callback for an Update
\* state.task is already the task of the event; a Create or a Delete leaves
\* state.task as it was, so that after the complete of a recurring task the
\* view holds the Completed task and not its successor.
C38_DeliveredInOrder ==
    /\ [][/\ emitted' = emitted \/ emitted' = emitted \o events'
          /\ action' = "onComplete" =>
                 /\ emitted' = emitted \o applyAction("complete", task, now')
                 /\ task' = events'[1].task
                 /\ task'.state = "completed"
          /\ (emitted' # emitted /\ \A i \in 1..Len(events') :
                                        events'[i].type # "update") =>
                 task' = task]_vars
    /\ [](/\ Len(seen) = Len(emitted)
          /\ \A i \in 1..Len(emitted) :
                 /\ emitted[i].type = "update" => seen[i] = emitted[i].task
                 /\ (emitted[i].type # "update" /\ i > 1) => seen[i] = seen[i - 1]
          /\ Len(emitted) > 0 => task = seen[Len(seen)])

\* The started task with the daily rule was completed: the callback got the
\* Update and then the Create, and at both calls, and now, state.task is the
\* Completed task.
C38_Witness ==
    /\ action = "onComplete"
    /\ input.repeat = DailyRule
    /\ Len(emitted) = 2
    /\ emitted[1].type = "update"
    /\ emitted[2].type = "create"
    /\ emitted[2].task.state = "pending"
    /\ seen[1] = emitted[1].task
    /\ seen[2] = emitted[1].task
    /\ task = emitted[1].task
    /\ task.state = "completed"

\* The event handed to the callback last.
lastEmitted == emitted[Len(emitted)]

\* C39: a successful save changes only the name, the scheduledDate and the
\* repeat of state.task: the task of its Update has the state, startEpochMs
\* and endEpochMs that state.task has when save is pressed, also when an action
\* changed the task after the editor was opened, and it becomes state.task;
\* cancelling the editor emits no event and leaves state.task unchanged.
C39_SaveFrame ==
    [][/\ (action' = "onSave" /\ emitted' # emitted) =>
              /\ emitted' = emitted \o <<lastEmitted'>>
              /\ lastEmitted'.type = "update"
              /\ lastEmitted'.task.state = task.state
              /\ lastEmitted'.task.startEpochMs = task.startEpochMs
              /\ lastEmitted'.task.endEpochMs = task.endEpochMs
              /\ task' = lastEmitted'.task
       /\ action' = "onEditorCancel" =>
              /\ emitted' = emitted
              /\ task' = task
              /\ editor' = Null]_vars

\* The editor was opened on the started task with the daily rule, the task was
\* completed while it was open, and save was pressed: the Update carries the
\* Completed state and its two times, with the daily rule of the inputs.
C39_Witness ==
    /\ action = "onSave"
    /\ Len(emitted) = 3
    /\ emitted[1].type = "update"
    /\ emitted[1].task.repeat = Once
    /\ emitted[2].type = "create"
    /\ lastEmitted.type = "update"
    /\ lastEmitted.task.state = "completed"
    /\ lastEmitted.task.startEpochMs = TestNow
    /\ lastEmitted.task.endEpochMs = emitted[1].task.endEpochMs
    /\ lastEmitted.task.repeat = DailyRule
    /\ task = lastEmitted.task

====
